---- MODULE Spec2Model ----
(***************************************************************************)
(* A model of the directory-tree normalisation scripts of dan-lab-to-nwb:  *)
(*   huang_2025_tdt/reorganize_data.py   (flat -> Neo-compatible nesting)  *)
(*   download_utils/unorganize_data.py   (Neo-compatible nesting -> flat)  *)
(*                                                                         *)
(* The filesystem is a function from absolute paths to nodes.  A path is a *)
(* sequence of names, a name is a sequence of atoms (indivisible pieces of *)
(* text such as "._", "_", "M1", ".tsq"), so that prefix tests, globbing   *)
(* and str.replace are computed on the text and not assumed.  Renames      *)
(* follow POSIX rename(2): the scripts target a macOS volume.              *)
(*                                                                         *)
(* The last part models the process pool of                                *)
(*   huang_2025_tdt/huang_2025_tdt_convert_all_sessions.py                 *)
(* (dataset_to_nwb and safe_session_to_nwb).                               *)
(***************************************************************************)
EXTENDS Integers, Sequences, FiniteSets, TLC

VARIABLES
    fs,                 \* the directory tree: path -> node
    run,                \* "none" | "organize" | "unorganize": the driver that is running
    setup_idx,          \* index into setup_folders of the next root the driver handles
    queue,              \* folders the scanner returned for the current root, not yet processed
    total_found,        \* unorganize_data: running total of scanned folders
    total_unorganized,  \* unorganize_data: running total of successes
    nruns,              \* number of driver runs started so far
    pre,                \* history: the tree before the most recent call
    last,               \* history: what the most recent call did
    anchor,             \* history: the flat contents a successful forward transformation started from
    runlog,             \* history: what the current (or last) run discovered and attempted
    scan,               \* the result of the most recent direct call of a scanner
    cls,                \* the result of the most recent direct call of the classifier
    ext,                \* the result of the most recent direct call of extract_session_name
    fresh,              \* history: the last step was a call that writes the tree (or none was taken yet)
    pool                \* dataset_to_nwb: the main process, the futures, the workers, the output directory

vars == <<fs, run, setup_idx, queue, total_found, total_unorganized, nruns,
          pre, last, anchor, runlog, scan, cls, ext, fresh, pool>>

----------------------------------------------------------------------------
(* Bounds of the model *)

\* Driver runs per behaviour.
MaxRuns == 2
\* Largest max_depth argument a direct scanner call is given.
MaxDepthArg == 3
\* Longest file stem, in atoms, a direct call of extract_session_name is given.
MaxStemLen == 4

----------------------------------------------------------------------------
(* Sequences of atoms: names *)

Last(s) == s[Len(s)]
Front(s) == SubSeq(s, 1, Len(s) - 1)

RECURSIVE Reverse(_)
Reverse(s) == IF s = <<>> THEN <<>> ELSE Append(Reverse(Tail(s)), Head(s))

\* str.startswith
StartsWith(s, p) == Len(s) >= Len(p) /\ SubSeq(s, 1, Len(p)) = p

\* the `in` operator on strings: p occurs in s
Contains(s, p) == \E i \in 1..(Len(s) - Len(p) + 1) : SubSeq(s, i, i + Len(p) - 1) = p

\* str.replace(old, new): every non-overlapping occurrence, left to right
RECURSIVE Replace(_, _, _)
Replace(s, old, new) ==
    IF Len(s) < Len(old) \/ old = <<>> THEN s
    ELSE IF SubSeq(s, 1, Len(old)) = old
         THEN new \o Replace(SubSeq(s, Len(old) + 1, Len(s)), old, new)
         ELSE <<Head(s)>> \o Replace(Tail(s), old, new)

\* str.strip(chars): drop leading and trailing atoms that are in chars
RECURSIVE LStrip(_, _)
LStrip(s, chars) == IF s # <<>> /\ Head(s) \in chars THEN LStrip(Tail(s), chars) ELSE s
Strip(s, chars) == Reverse(LStrip(Reverse(LStrip(s, chars)), chars))

\* The atoms the scripts look for.
SHADOW == <<"._">>             \* name.startswith("._")
TEMP == <<"temp_">>            \* f"temp_{tdt_folder.name}"
TSQ == ".tsq"                  \* glob("*.tsq")
Extensions == {".tsq", ".tev"} \* atoms that are a file name's suffix

IsShadow(name) == StartsWith(name, SHADOW)
\* PurePath.stem: the name without its last suffix
Stem(name) == IF name # <<>> /\ Last(name) \in Extensions /\ Len(name) > 1 THEN Front(name) ELSE name
\* fnmatch of "*.tsq"
MatchesTsq(name) == name # <<>> /\ Last(name) = TSQ

----------------------------------------------------------------------------
(* Paths and the tree *)

Parent(p) == IF p = <<>> THEN <<>> ELSE Front(p)
Name(p) == IF p = <<>> THEN <<>> ELSE Last(p)
\* a is p or an ancestor of p
IsUnder(p, a) == Len(p) >= Len(a) /\ SubSeq(p, 1, Len(a)) = a

\* locked: a directory whose entries cannot be read (iterdir and glob raise
\* PermissionError on it)
DirNode == [kind |-> "dir", id |-> 0, to |-> <<>>, locked |-> FALSE]
LockedDirNode == [kind |-> "dir", id |-> 0, to |-> <<>>, locked |-> TRUE]
FileNode(c) == [kind |-> "file", id |-> c, to |-> <<>>, locked |-> FALSE]
LinkNode(t) == [kind |-> "link", id |-> 0, to |-> t, locked |-> FALSE]

\* Path.resolve(): the path with every symbolic link followed
RECURSIVE Resolve(_, _)
Follow(f, q) == IF q \in DOMAIN f /\ f[q].kind = "link" THEN Resolve(f, f[q].to) ELSE q
Resolve(f, p) == IF p = <<>> THEN <<>> ELSE Follow(f, Append(Resolve(f, Parent(p)), Name(p)))

\* where the entry named by p itself lives (the last component is not followed)
Loc(f, p) == IF p = <<>> THEN <<>> ELSE Append(Resolve(f, Parent(p)), Name(p))
LExists(f, p) == Loc(f, p) \in DOMAIN f
KindAt(f, r) == IF r \in DOMAIN f THEN f[r].kind ELSE "absent"
Exists(f, p) == Resolve(f, p) \in DOMAIN f
IsDir(f, p) == KindAt(f, Resolve(f, p)) = "dir"
IsFile(f, p) == KindAt(f, Resolve(f, p)) = "file"
\* reading the entries of p raises PermissionError
LockedAt(f, r) == r \in DOMAIN f /\ f[r].locked
Unreadable(f, p) == LockedAt(f, Resolve(f, p))

\* the names of the entries of directory p
NamesAt(f, r) == {Name(q) : q \in {q \in DOMAIN f : q # <<>> /\ Parent(q) = r}}
ChildNames(f, p) == NamesAt(f, Resolve(f, p))

\* A listing order: the file system hands out entries in an order the code
\* does not control; the model lets each call see one of two opposite orders.
Orders == {"fwd", "rev"}
RECURSIVE SetToSeq(_)
SetToSeq(S) == IF S = {} THEN <<>>
               ELSE LET x == CHOOSE x \in S : TRUE IN <<x>> \o SetToSeq(S \ {x})
Listing(S, ord) == IF ord = "fwd" THEN SetToSeq(S) ELSE Reverse(SetToSeq(S))

\* Path.iterdir(): the entries of p, as paths below p
PathsBelow(p, names) == [i \in 1..Len(names) |-> Append(p, names[i])]
Iterdir(f, p, ord) == PathsBelow(p, Listing(ChildNames(f, p), ord))

\* Path.glob("*.tsq")
GlobTsq(f, p, ord) == LET T(q) == MatchesTsq(Name(q)) IN SelectSeq(Iterdir(f, p, ord), T)

\* glob("*BBB8*") and the like: names in which pat occurs
GlobContaining(f, p, pat, ord) ==
    LET T(q) == Contains(Name(q), pat) IN SelectSeq(Iterdir(f, p, ord), T)

\* the tree with the subtree at location a moved to location b
MoveSubtree(f, a, b) ==
    LET keep == {p \in DOMAIN f : ~IsUnder(p, a) /\ ~IsUnder(p, b)}
        moved == {p \in DOMAIN f : IsUnder(p, a)}
        dom == keep \cup {b \o SubSeq(p, Len(a) + 1, Len(p)) : p \in moved}
    IN [q \in dom |-> IF q \in keep THEN f[q] ELSE f[a \o SubSeq(q, Len(b) + 1, Len(q))]]

HasEntries(f, loc) == \E q \in DOMAIN f : q # <<>> /\ Parent(q) = loc

\* os.rename under POSIX, on the places s and d of the two entries: a
\* directory replaces only an empty directory, a file or link replaces only
\* a file or link, nothing moves into itself.  ok = FALSE is OSError, and
\* the tree is unchanged.
RenameOk(f, s, d) ==
    /\ s # <<>> /\ d # <<>>
    /\ s \in DOMAIN f
    /\ Parent(d) \in DOMAIN f /\ f[Parent(d)].kind = "dir"
    /\ (s = d \/ ~IsUnder(d, s))
    /\ (d \in DOMAIN f /\ d # s) =>
          IF f[s].kind = "dir"
          THEN f[d].kind = "dir" /\ ~HasEntries(f, d)
          ELSE f[d].kind # "dir"
RenameAt(f, s, d) ==
    IF ~RenameOk(f, s, d) THEN [ok |-> FALSE, fs |-> f]
    ELSE IF s = d THEN [ok |-> TRUE, fs |-> f]
    ELSE [ok |-> TRUE, fs |-> MoveSubtree(f, s, d)]
Rename(f, src, dst) == RenameAt(f, Loc(f, src), Loc(f, dst))

\* Path.mkdir(): FileExistsError when the path exists, FileNotFoundError
\* when the parent is no directory
MkdirAt(f, l) ==
    IF l \notin DOMAIN f /\ Parent(l) \in DOMAIN f /\ f[Parent(l)].kind = "dir"
    THEN [ok |-> TRUE, fs |-> [q \in DOMAIN f \cup {l} |-> IF q = l THEN DirNode ELSE f[q]]]
    ELSE [ok |-> FALSE, fs |-> f]
Mkdir(f, p) == MkdirAt(f, Loc(f, p))

\* Path.rmdir(): OSError unless the path is an empty directory (a link is
\* not a directory here)
RmdirAt(f, l) ==
    IF l \in DOMAIN f /\ l # <<>> /\ f[l].kind = "dir" /\ ~HasEntries(f, l)
    THEN [ok |-> TRUE, fs |-> [q \in DOMAIN f \ {l} |-> f[q]]]
    ELSE [ok |-> FALSE, fs |-> f]
Rmdir(f, p) == RmdirAt(f, Loc(f, p))

\* the entries below p, by path relative to p (a link at p is followed)
SubtreeAt(f, r) ==
    [rel \in {SubSeq(q, Len(r) + 1, Len(q)) : q \in {q \in DOMAIN f : IsUnder(q, r) /\ q # r}}
        |-> f[r \o rel]]
Subtree(f, p) == SubtreeAt(f, Resolve(f, p))

----------------------------------------------------------------------------
(* reorganize_data.py: classifier and session name *)

\* [d for d in folder.iterdir() if d.is_dir() and not d.name.startswith("._")]
Subdirs(f, folder, ord) ==
    LET T(d) == IsDir(f, d) /\ ~IsShadow(Name(d)) IN SelectSeq(Iterdir(f, folder, ord), T)

\* variant for C9: the name of the nested directory is not compared
NestedMatchAnyName(nested_dirs, tdt_folder) == Len(nested_dirs) = 1
\* len(nested_dirs) == 1 and nested_dirs[0].name == tdt_folder.name
NestedMatch(nested_dirs, tdt_folder) ==
    Len(nested_dirs) = 1 /\ Name(nested_dirs[1]) = Name(tdt_folder)
SessionMatch(f, subdirs, tdt_folder, ord) ==
    IF Len(subdirs) # 1 THEN FALSE
    ELSE NestedMatch(Subdirs(f, subdirs[1], ord), tdt_folder)
is_neo_compatible(f, tdt_folder, ord) ==
    SessionMatch(f, Subdirs(f, tdt_folder, ord), tdt_folder, ord)

\* Neither iterdir() of is_neo_compatible is inside a try: the call raises
\* when tdt_folder, or its only subdirectory, cannot be read.
SessionRaises(f, subdirs) == Len(subdirs) = 1 /\ Unreadable(f, subdirs[1])
is_neo_compatible_raises(f, tdt_folder, ord) ==
    IF Unreadable(f, tdt_folder) THEN TRUE ELSE SessionRaises(f, Subdirs(f, tdt_folder, ord))

\* the directories is_neo_compatible lists while it classifies tdt_folder
ListedWith(f, subdirs, tdt_folder) ==
    IF Len(subdirs) # 1 \/ Unreadable(f, subdirs[1]) THEN {tdt_folder} ELSE {tdt_folder, subdirs[1]}
is_neo_compatible_lists(f, tdt_folder, ord) ==
    IF Unreadable(f, tdt_folder) THEN {}
    ELSE ListedWith(f, Subdirs(f, tdt_folder, ord), tdt_folder)

is_innermost_of_neo_structure(f, folder) ==
    LET grandparent == Parent(Parent(folder))
    IN IF ~Exists(f, grandparent) THEN FALSE
       ELSE Name(grandparent) = Name(folder)

extract_session_name(tsq_file_path, tdt_folder_name) ==
    LET filename_stem == Stem(Name(tsq_file_path))
    IN Strip(Replace(Replace(filename_stem, <<"_">> \o tdt_folder_name, <<>>),
                     tdt_folder_name, <<>>),
             {"_"})

----------------------------------------------------------------------------
(* reorganize_data.py: make_neo_compatible *)

\* What can be made to fail in one call: the first legacy rename that is
\* attempted, or one of the four mutation steps of the nesting.
Faults == {"none", "legacy", "step1", "mkdir_outer", "mkdir_middle", "step3"}
\* "legacy": the first rename of the legacy rules raises; "legacy_file": the
\* first rename of a file does, the renames of the folder pass
LegacyFaults == {"none", "legacy", "legacy_file"}

\* for file_path in tdt_folder.glob(pattern): if file_path.is_file(): rename
\* it to its name with old replaced by new.  A rename that raises ends the loop.
RECURSIVE RenameFiles(_, _, _, _, _)
RenamedFile(r, f, files, old, new, fault) ==
    IF fault \in {"legacy", "legacy_file"} \/ ~r.ok THEN [fs |-> f, raised |-> TRUE]
    ELSE RenameFiles(r.fs, Tail(files), old, new, fault)
RenameFiles(f, files, old, new, fault) ==
    IF files = <<>> THEN [fs |-> f, raised |-> FALSE]
    ELSE IF ~IsFile(f, Head(files)) THEN RenameFiles(f, Tail(files), old, new, fault)
    ELSE RenamedFile(Rename(f, Head(files),
                            Append(Parent(Head(files)), Replace(Name(Head(files)), old, new))),
                     f, files, old, new, fault)

\* st: the tree, the folder under its current name, whether an exception
\* was raised, whether a rename was attempted, and the fault still to inject.
RenamedFolder(r, st, new_folder_path) ==
    IF st.fault = "legacy" \/ ~r.ok
    THEN [st EXCEPT !.raised = TRUE, !.tried = TRUE]
    ELSE [st EXCEPT !.fs = r.fs, !.tdt_folder = new_folder_path, !.tried = TRUE, !.fault = "none"]
\* tdt_folder.rename(tdt_folder.parent / tdt_folder.name.replace(old, new))
RenameFolderTo(st, new_folder_path) ==
    RenamedFolder(Rename(st.fs, st.tdt_folder, new_folder_path), st, new_folder_path)
RenameFolder(st, old, new) ==
    RenameFolderTo(st, Append(Parent(st.tdt_folder), Replace(Name(st.tdt_folder), old, new)))

RenamedFolderFiles(r, st) ==
    [st EXCEPT !.fs = r.fs, !.raised = r.raised,
               !.tried = @ \/ r.raised \/ r.fs # st.fs,
               !.fault = IF r.raised \/ r.fs # st.fs THEN "none" ELSE @]
RenameFolderFiles(st, old, new, ord) ==
    IF Unreadable(st.fs, st.tdt_folder) THEN [st EXCEPT !.raised = TRUE]
    ELSE RenamedFolderFiles(
        RenameFiles(st.fs, GlobContaining(st.fs, st.tdt_folder, old, ord), old, new, st.fault), st)

BBB8 == <<"BBB8">>
M008 == <<"M008">>
\* two atoms: removing one "(0725)" from inside another leaves "(0725)"
Suffix0725 == <<"(07", "25)">>
M374_M501 == <<"M374_M501">>
M376_M501 == <<"M376_M501">>
M376_M501_folder == <<"M376_M501", "-251001-071000">>

\* The four special cases at the head of make_neo_compatible, in order.
LegacyRule1(st) ==
    IF ~st.raised /\ Contains(Name(st.tdt_folder), BBB8) THEN RenameFolder(st, BBB8, M008) ELSE st
LegacyRule2(st, ord) ==
    IF ~st.raised /\ Contains(Name(st.tdt_folder), M008)
    THEN RenameFolderFiles(st, BBB8, M008, ord) ELSE st
LegacyRule3(st) ==
    IF ~st.raised /\ Contains(Name(st.tdt_folder), Suffix0725)
    THEN RenameFolder(st, Suffix0725, <<>>) ELSE st
LegacyRule4(st, ord) ==
    IF ~st.raised /\ Name(st.tdt_folder) = M376_M501_folder
    THEN RenameFolderFiles(st, M374_M501, M376_M501, ord) ELSE st
LegacyRules(f, tdt_folder, ord, fault) ==
    LegacyRule4(LegacyRule3(LegacyRule2(LegacyRule1(
        [fs |-> f, tdt_folder |-> tdt_folder, raised |-> FALSE, tried |-> FALSE,
         fault |-> fault]), ord)), ord)

\* [f for f in tdt_folder.glob("*.tsq") if not f.name.startswith("._")]
TsqFiles(f, tdt_folder, ord) ==
    LET T(q) == ~IsShadow(Name(q)) IN SelectSeq(GlobTsq(f, tdt_folder, ord), T)

TempPath(tdt_folder, parent_folder) == Append(parent_folder, TEMP \o Name(tdt_folder))

\* The except branch: rename temp_<name> back when it exists.
Restored(r) == [fs |-> r.fs, restore |-> IF r.ok THEN "ok" ELSE "failed"]
Restore(f, tdt_folder, parent_folder) ==
    IF ~Exists(f, TempPath(tdt_folder, parent_folder)) THEN [fs |-> f, restore |-> "absent"]
    ELSE Restored(Rename(f, TempPath(tdt_folder, parent_folder), tdt_folder))

\* The try block.  Each step gets the outcome r of the call before it;
\* failed_at names the call that raised, fs is the tree it left.
\* Step 3: temp_path.rename(session_folder / tdt_folder.name)
Nested(r, f) ==
    IF ~r.ok THEN [fs |-> f, failed_at |-> "step3"] ELSE [fs |-> r.fs, failed_at |-> "none"]
\* variant for C4: the data lands in the session folder, one level too high
Step3Shallow(r, f, tdt_folder, parent_folder, session_name, fault) ==
    IF fault = "mkdir_middle" \/ ~r.ok THEN [fs |-> f, failed_at |-> "mkdir_middle"]
    ELSE IF fault = "step3" THEN [fs |-> r.fs, failed_at |-> "step3"]
    ELSE Nested(Rename(r.fs, TempPath(tdt_folder, parent_folder),
                       Append(tdt_folder, session_name)), r.fs)
Step3(r, f, tdt_folder, parent_folder, session_name, fault) ==
    IF fault = "mkdir_middle" \/ ~r.ok THEN [fs |-> f, failed_at |-> "mkdir_middle"]
    ELSE IF fault = "step3" THEN [fs |-> r.fs, failed_at |-> "step3"]
    ELSE Nested(Rename(r.fs, TempPath(tdt_folder, parent_folder),
                       Append(Append(tdt_folder, session_name), Name(tdt_folder))), r.fs)
\* Step 2, second half: session_folder.mkdir()
Step2b(r, f, tdt_folder, parent_folder, session_name, fault) ==
    IF fault = "mkdir_outer" \/ ~r.ok THEN [fs |-> f, failed_at |-> "mkdir_outer"]
    ELSE Step3(Mkdir(r.fs, Append(tdt_folder, session_name)), r.fs,
               tdt_folder, parent_folder, session_name, fault)
\* Step 2, first half: tdt_folder.mkdir()
Step2a(r, f, tdt_folder, parent_folder, session_name, fault) ==
    IF fault = "step1" \/ ~r.ok THEN [fs |-> f, failed_at |-> "step1"]
    ELSE Step2b(Mkdir(r.fs, tdt_folder), r.fs, tdt_folder, parent_folder, session_name, fault)
\* Step 1: tdt_folder.rename(parent_folder / f"temp_{tdt_folder.name}")
Nest(f, tdt_folder, parent_folder, session_name, fault) ==
    Step2a(Rename(f, tdt_folder, TempPath(tdt_folder, parent_folder)), f,
           tdt_folder, parent_folder, session_name, fault)

MncResult(f, tdt_folder, outcome, session, flat, failed_at, restore) ==
    [fs |-> f, dir |-> tdt_folder, outcome |-> outcome, session |-> session,
     flat |-> flat, failed_at |-> failed_at, restore |-> restore]

Failed(rb, lg, session_name, failed_at) ==
    MncResult(rb.fs, lg.tdt_folder, "failed", session_name, lg.fs, failed_at, rb.restore)
Tried(n, lg, parent_folder, session_name) ==
    IF n.failed_at = "none"
    THEN MncResult(n.fs, lg.tdt_folder, "done", session_name, lg.fs, "none", "none")
    ELSE Failed(Restore(n.fs, lg.tdt_folder, parent_folder), lg, session_name, n.failed_at)
\* variant for C14: an empty session name is not tested for
WithSessionUnchecked(session_name, lg, parent_folder, fault) ==
    Tried(Nest(lg.fs, lg.tdt_folder, parent_folder, session_name, fault),
          lg, parent_folder, session_name)
WithSession(session_name, lg, parent_folder, fault) ==
    IF session_name = <<>>
    THEN MncResult(lg.fs, lg.tdt_folder, "no_session", <<>>, lg.fs, "none", "none")
    ELSE Tried(Nest(lg.fs, lg.tdt_folder, parent_folder, session_name, fault),
               lg, parent_folder, session_name)
WithTsqFiles(tsq_files, lg, parent_folder, fault) ==
    IF Len(tsq_files) = 0
    THEN MncResult(lg.fs, lg.tdt_folder, "no_tsq", <<>>, lg.fs, "none", "none")
    ELSE WithSession(extract_session_name(tsq_files[1], Name(lg.tdt_folder)),
                     lg, parent_folder, fault)
AfterLegacy(lg, parent_folder, ord) ==
    IF lg.raised
    THEN MncResult(lg.fs, lg.tdt_folder, "raised", <<>>, lg.fs, "legacy", "none")
    ELSE IF is_neo_compatible_raises(lg.fs, lg.tdt_folder, ord)
    THEN MncResult(lg.fs, lg.tdt_folder, "raised", <<>>, lg.fs, "classify", "none")
    ELSE IF is_neo_compatible(lg.fs, lg.tdt_folder, ord)
    THEN MncResult(lg.fs, lg.tdt_folder, "already", <<>>, lg.fs, "none", "none")
    ELSE WithTsqFiles(TsqFiles(lg.fs, lg.tdt_folder, ord), lg, parent_folder, lg.fault)

\* outcome: "hidden" (shadow name, nothing done), "raised" (an exception left
\* the function), "already", "no_tsq", "no_session" (the three early
\* returns), "done" (the three steps ran), "failed" (the except branch ran).
\* dir: the folder under the name the legacy rules left it with; flat: the
\* tree as it was when step 1 began.
make_neo_compatible(f, tdt_folder, parent_folder, ord, fault) ==
    IF IsShadow(Name(tdt_folder))
    THEN MncResult(f, tdt_folder, "hidden", <<>>, f, "none", "none")
    ELSE AfterLegacy(LegacyRules(f, tdt_folder, ord, fault), parent_folder, ord)

----------------------------------------------------------------------------
(* unorganize_data.py: classifier and unorganize_folder *)

\* The copy of the classifier in unorganize_data.py.
\* variant for C10: the first nested directory decides, however many there are
SessionMatchFirst_u(f, subdirs, tdt_folder, ord) ==
    IF Len(subdirs) # 1 THEN FALSE
    ELSE IF Unreadable(f, subdirs[1]) THEN FALSE
    ELSE Subdirs(f, subdirs[1], ord) # <<>>
         /\ Name(Subdirs(f, subdirs[1], ord)[1]) = Name(tdt_folder)
SessionMatch_u(f, subdirs, tdt_folder, ord) ==
    IF Len(subdirs) # 1 THEN FALSE
    ELSE IF Unreadable(f, subdirs[1]) THEN FALSE  \* except (PermissionError, OSError)
    ELSE IF NestedMatch(Subdirs(f, subdirs[1], ord), tdt_folder) THEN TRUE ELSE FALSE
is_neo_compatible_u(f, tdt_folder, ord) ==
    IF Unreadable(f, tdt_folder) THEN FALSE  \* except (PermissionError, OSError)
    ELSE SessionMatch_u(f, Subdirs(f, tdt_folder, ord), tdt_folder, ord)

\* shutil.move(str(item), str(dest)) for a dest that does not exist: a rename
ShutilMove(f, item, dest) == Rename(f, item, dest)

\* One pass of "for item in data_folder.iterdir()", over the listing taken
\* when the loop began.  fail_at is the entry whose move is made to raise
\* (<<>>: none).  acc: the names moved, warned about and skipped as hidden.
RECURSIVE MoveItems(_, _, _, _, _)
Moved(m, f, items, tdt_folder, fail_at, acc) ==
    IF Name(Head(items)) = fail_at \/ ~m.ok
    THEN [acc EXCEPT !.fs = f, !.raised = TRUE]
    ELSE MoveItems(m.fs, Tail(items), tdt_folder, fail_at,
                   [acc EXCEPT !.moved = Append(@, Name(Head(items)))])
\* variant for C3: no dest.exists() test before the move
MoveItemsOverwriting(f, items, tdt_folder, fail_at, acc) ==
    IF items = <<>> THEN [acc EXCEPT !.fs = f]
    ELSE IF IsShadow(Name(Head(items)))
    THEN MoveItems(f, Tail(items), tdt_folder, fail_at,
                   [acc EXCEPT !.hidden = Append(@, Name(Head(items)))])
    ELSE Moved(ShutilMove(f, Head(items), Append(tdt_folder, Name(Head(items)))),
               f, items, tdt_folder, fail_at, acc)
MoveItems(f, items, tdt_folder, fail_at, acc) ==
    IF items = <<>> THEN [acc EXCEPT !.fs = f]
    ELSE IF IsShadow(Name(Head(items)))
    THEN MoveItems(f, Tail(items), tdt_folder, fail_at,
                   [acc EXCEPT !.hidden = Append(@, Name(Head(items)))])
    ELSE IF Exists(f, Append(tdt_folder, Name(Head(items))))
    THEN MoveItems(f, Tail(items), tdt_folder, fail_at,
                   [acc EXCEPT !.warned = Append(@, Name(Head(items)))])
    ELSE Moved(ShutilMove(f, Head(items), Append(tdt_folder, Name(Head(items)))),
               f, items, tdt_folder, fail_at, acc)

\* data_folder.rmdir(); session_folder.rmdir() inside one try: the second is
\* not attempted when the first raises OSError.
Removed2(r2, f) == IF ~r2.ok THEN [fs |-> f, removed |-> FALSE] ELSE [fs |-> r2.fs, removed |-> TRUE]
Removed1(r1, f, session_folder) ==
    IF ~r1.ok THEN [fs |-> f, removed |-> FALSE] ELSE Removed2(Rmdir(r1.fs, session_folder), r1.fs)
RemoveEmpty(f, data_folder, session_folder) ==
    Removed1(Rmdir(f, data_folder), f, session_folder)

UnorgResult(f, ret, stage, mv, removed) ==
    [fs |-> f, ret |-> ret, stage |-> stage, moved |-> mv.moved, warned |-> mv.warned,
     hidden |-> mv.hidden, raised |-> mv.raised, removed |-> removed]

NoMoves == [fs |-> <<>>, moved |-> <<>>, warned |-> <<>>, hidden |-> <<>>, raised |-> FALSE]

Pruned(rm, mv) == UnorgResult(rm.fs, TRUE, "moved", mv, rm.removed)
AfterMoves(mv, data_folder, session_folder) ==
    IF mv.raised THEN UnorgResult(mv.fs, FALSE, "moved", mv, FALSE)
    ELSE Pruned(RemoveEmpty(mv.fs, data_folder, session_folder), mv)
WithNested(nested_dirs, f, tdt_folder, session_folder, ord, fail_at) ==
    IF Len(nested_dirs) # 1 \/ Name(nested_dirs[1]) # Name(tdt_folder)
    THEN UnorgResult(f, FALSE, "nested", NoMoves, FALSE)
    ELSE IF Unreadable(f, nested_dirs[1]) THEN UnorgResult(f, FALSE, "error", NoMoves, FALSE)
    ELSE AfterMoves(MoveItems(f, Iterdir(f, nested_dirs[1], ord), tdt_folder, fail_at, NoMoves),
                    nested_dirs[1], session_folder)
WithSubdirs(subdirs, f, tdt_folder, ord, fail_at) ==
    IF Len(subdirs) # 1 THEN UnorgResult(f, FALSE, "subdirs", NoMoves, FALSE)
    ELSE IF Unreadable(f, subdirs[1]) THEN UnorgResult(f, FALSE, "error", NoMoves, FALSE)
    ELSE WithNested(Subdirs(f, subdirs[1], ord), f, tdt_folder, subdirs[1], ord, fail_at)

\* stage: "subdirs" and "nested" are the two early returns, "error" a
\* listing that raised into the outer except, "moved" the loop running (to
\* its end, or to the move that raised).
unorganize_folder(f, tdt_folder, ord, fail_at) ==
    IF Unreadable(f, tdt_folder) THEN UnorgResult(f, FALSE, "error", NoMoves, FALSE)
    ELSE WithSubdirs(Subdirs(f, tdt_folder, ord), f, tdt_folder, ord, fail_at)

----------------------------------------------------------------------------
(* The scanners *)

\* What one search yields.  cands: the folders that reached the "only add
\* if we haven't seen this folder" test, in the order the search met them,
\* each with the depth it was met at; visited: the (folder, depth) pairs that
\* got past the depth check; listed: the (directory, depth) pairs whose
\* entries were read.
NoSearch == [cands |-> <<>>, visited |-> {}, listed |-> {}]
Merge(a, b) == [cands |-> a.cands \o b.cands, visited |-> a.visited \cup b.visited,
                listed |-> a.listed \cup b.listed]

\* tdt_folders / seen_folders: a candidate is appended unless its resolved
\* path was already seen.
RECURSIVE Dedup(_, _, _)
\* variant for C6: seen_folders is not consulted
DedupAddAll(folder_path_str, c, acc) ==
    [found |-> Append(acc.found, c.folder),
     seen |-> acc.seen \cup {folder_path_str},
     matched |-> acc.matched \cup {<<c.folder, c.depth>>}]
DedupAdd(folder_path_str, c, acc) ==
    IF folder_path_str \notin acc.seen
    THEN [found |-> Append(acc.found, c.folder),
          seen |-> acc.seen \cup {folder_path_str},
          matched |-> acc.matched \cup {<<c.folder, c.depth>>}]
    ELSE acc
Dedup(f, cands, acc) ==
    IF cands = <<>> THEN acc
    ELSE Dedup(f, Tail(cands), DedupAdd(Resolve(f, Head(cands).folder), Head(cands), acc))

Scanned(d, s) == [found |-> d.found, matched |-> d.matched, visited |-> s.visited, listed |-> s.listed]
ScanResult(f, s) == Scanned(Dedup(f, s.cands, [found |-> <<>>, seen |-> {}, matched |-> {}]), s)
NoResult == [found |-> <<>>, matched |-> {}, visited |-> {}, listed |-> {}]

\* find_tdt_folders.search
RECURSIVE search_tdt(_, _, _, _, _)
RECURSIVE search_tdt_items(_, _, _, _, _)
search_tdt(f, folder, depth, max_depth, ord) ==
    IF depth > max_depth THEN NoSearch
    ELSE
    LET here == [NoSearch EXCEPT !.visited = {<<folder, depth>>}, !.listed = {<<folder, depth>>}]
        has_tsq_files == GlobTsq(f, folder, ord) # <<>>
        folder_to_add == IF is_innermost_of_neo_structure(f, folder)
                         THEN Parent(Parent(folder)) ELSE folder
    IN IF Unreadable(f, folder)  \* except (PermissionError, OSError)
       THEN [NoSearch EXCEPT !.visited = {<<folder, depth>>}]
       ELSE IF has_tsq_files
       THEN [here EXCEPT !.cands = << [folder |-> folder_to_add, depth |-> depth] >>]
       ELSE Merge(here, search_tdt_items(f, Iterdir(f, folder, ord), depth, max_depth, ord))
\* variant for C24: the error of one item ends the loop over the items
search_tdt_items_stop(f, items, depth, max_depth, ord) ==
    IF items = <<>> THEN NoSearch
    ELSE IF IsDir(f, Head(items)) /\ Unreadable(f, Head(items))
    THEN [NoSearch EXCEPT !.visited = {<<Head(items), depth + 1>>}]
    ELSE Merge(IF IsDir(f, Head(items)) /\ ~IsShadow(Name(Head(items)))
               THEN search_tdt(f, Head(items), depth + 1, max_depth, ord)
               ELSE NoSearch,
               search_tdt_items(f, Tail(items), depth, max_depth, ord))
search_tdt_items(f, items, depth, max_depth, ord) ==
    IF items = <<>> THEN NoSearch
    ELSE LET item == Head(items)
         IN Merge(IF IsDir(f, item) /\ ~IsShadow(Name(item))
                  THEN search_tdt(f, item, depth + 1, max_depth, ord)
                  ELSE NoSearch,
                  search_tdt_items(f, Tail(items), depth, max_depth, ord))

find_tdt_folders(f, root_folder, max_depth, ord) ==
    ScanResult(f, search_tdt(f, root_folder, 0, max_depth, ord))

\* find_neo_compatible_folders.search
RECURSIVE search_neo(_, _, _, _, _)
RECURSIVE search_neo_items(_, _, _, _, _)
\* variant for C7: the depth test is off by one
search_neo_deeper(f, folder, depth, max_depth, ord) ==
    IF depth > max_depth + 1 THEN NoSearch
    ELSE IF IsShadow(Name(folder)) THEN [NoSearch EXCEPT !.visited = {<<folder, depth>>}]
    ELSE IF is_neo_compatible_u(f, folder, ord)
    THEN [NoSearch EXCEPT !.visited = {<<folder, depth>>},
                          !.cands = << [folder |-> folder, depth |-> depth] >>]
    ELSE IF Unreadable(f, folder) THEN [NoSearch EXCEPT !.visited = {<<folder, depth>>}]
    ELSE Merge([NoSearch EXCEPT !.visited = {<<folder, depth>>}],
               search_neo_items(f, Iterdir(f, folder, ord), depth, max_depth, ord))
search_neo(f, folder, depth, max_depth, ord) ==
    IF depth > max_depth THEN NoSearch
    ELSE IF IsShadow(Name(folder)) THEN [NoSearch EXCEPT !.visited = {<<folder, depth>>}]
    ELSE
    LET here == [NoSearch EXCEPT
                    !.visited = {<<folder, depth>>},
                    !.listed = {<<d, depth + Len(d) - Len(folder)>> :
                                   d \in is_neo_compatible_lists(f, folder, ord)}]
    IN IF is_neo_compatible_u(f, folder, ord)
       THEN [here EXCEPT !.cands = << [folder |-> folder, depth |-> depth] >>]
       ELSE IF Unreadable(f, folder) THEN here  \* except (PermissionError, OSError)
       ELSE Merge(here, search_neo_items(f, Iterdir(f, folder, ord), depth, max_depth, ord))
search_neo_items(f, items, depth, max_depth, ord) ==
    IF items = <<>> THEN NoSearch
    ELSE LET item == Head(items)
         IN Merge(IF IsDir(f, item) /\ ~IsShadow(Name(item))
                  THEN search_neo(f, item, depth + 1, max_depth, ord)
                  ELSE NoSearch,
                  search_neo_items(f, Tail(items), depth, max_depth, ord))

find_neo_compatible_folders(f, root_folder, max_depth, ord) ==
    ScanResult(f, search_neo(f, root_folder, 0, max_depth, ord))

\* max_depth: int = 10 of both scanners
DefaultMaxDepth == 10

----------------------------------------------------------------------------
(* The trees a behaviour starts from *)

\* data_dir_path and the setup_folders of reorganize_data / unorganize_data
data_dir_path == << <<"data">> >>
setup_folders == << <<"Setup - Bing">>, <<"Setup - WS8">>, <<"Setup - MollyFP">> >>
SetupPath(i) == Append(data_dir_path, setup_folders[i])

SessionRun == <<"Run">>
MarkerOf(d) == <<"Run", "_">> \o d \o <<".tsq">>
DataOf(d) == <<"Run", "_">> \o d \o <<".tev">>
ShadowMarkerOf(d) == SHADOW \o MarkerOf(d)
SecondMarkerOf(d) == <<"Ran", "_">> \o d \o <<".tsq">>
ShadowDir == <<"._", "junk">>
M1 == <<"M1">>
M2 == <<"M2">>
Other == <<"Other">>

\* A shape is a set of <<relative path, node>> pairs; ids b+1.. keep the
\* contents of different files different.
Flat(d, b) == {<< <<>>, DirNode >>, << <<MarkerOf(d)>>, FileNode(b + 1) >>,
               << <<DataOf(d)>>, FileNode(b + 2) >>}
Compat(d, inner, b) ==
    {<< <<>>, DirNode >>, << <<SessionRun>>, DirNode >>, << <<SessionRun, inner>>, DirNode >>,
     << <<SessionRun, inner, MarkerOf(inner)>>, FileNode(b + 1) >>,
     << <<SessionRun, inner, DataOf(inner)>>, FileNode(b + 2) >>}
Shape(kind, d, b) ==
    CASE kind = "flat" -> Flat(d, b)
      [] kind = "flatHidden" -> Flat(d, b) \cup {<< <<ShadowMarkerOf(d)>>, FileNode(b + 3) >>}
      [] kind = "flatSess" -> Flat(d, b) \cup {<< <<SessionRun>>, FileNode(b + 4) >>}
      [] kind = "compat" -> Compat(d, d, b)
      [] kind = "compatColl" -> Compat(d, d, b) \cup {<< <<DataOf(d)>>, FileNode(b + 5) >>}
      [] kind = "compatHidden" ->
            Compat(d, d, b) \cup {<< <<SessionRun, d, ShadowMarkerOf(d)>>, FileNode(b + 3) >>}
      [] kind = "compatShadowDirs" ->
            Compat(d, d, b) \cup {<< <<ShadowDir>>, DirNode >>, << <<SessionRun, ShadowDir>>, DirNode >>,
                                  << <<SessionRun, DataOf(d)>>, FileNode(b + 6) >>,
                                  << <<DataOf(Other)>>, FileNode(b + 7) >>}
      [] kind = "nestedOther" -> Compat(d, Other, b)
      [] kind = "nestedTwo" ->
            Compat(d, d, b) \cup {<< <<SessionRun, Other>>, DirNode >>,
                                  << <<SessionRun, Other, MarkerOf(Other)>>, FileNode(b + 8) >>}
      [] kind = "flatNoSession" ->
            {<< <<>>, DirNode >>, << <<d \o <<".tsq">> >>, FileNode(b + 1) >>,
             << <<DataOf(d)>>, FileNode(b + 2) >>}
      [] kind = "flatTwoMarkers" -> Flat(d, b) \cup {<< <<SecondMarkerOf(d)>>, FileNode(b + 9) >>}
      [] kind = "flatLockedChild" -> Flat(d, b) \cup {<< <<Other>>, LockedDirNode >>}
      [] kind = "compatLocked" ->
            {<< <<>>, DirNode >>, << <<SessionRun>>, DirNode >>, << <<SessionRun, d>>, LockedDirNode >>,
             << <<SessionRun, d, MarkerOf(d)>>, FileNode(b + 1) >>}
      [] kind = "shadowOnly" -> {<< <<>>, DirNode >>, << <<ShadowMarkerOf(d)>>, FileNode(b + 3) >>}
      [] kind = "plain" -> {<< <<>>, DirNode >>, << <<DataOf(d)>>, FileNode(b + 2) >>}
      [] OTHER -> {}

At(base, shape) == {<<base \o e[1], e[2]>> : e \in shape}
TreeOf(entries) ==
    [p \in {e[1] : e \in entries} |-> (CHOOSE e \in entries : e[1] = p)[2]]

\* Folder A sits directly under the first root, folder B one level down
\* under the second; the third root is missing.
PathA(d) == Append(SetupPath(1), d)
SubB == Append(SetupPath(2), <<"sub">>)
PathB == Append(SubB, M2)

KindsA == {"flat", "flatHidden", "flatSess", "compat", "compatColl", "compatHidden",
           "compatShadowDirs", "nestedOther", "nestedTwo", "shadowOnly", "plain", "flatBBB8",
           "flatNoSession", "flatBBB8NoSession", "flatTwoMarkers", "flatLockedChild",
           "compatLocked", "compatBBB8", "flatTemp"}
KindsB == {"none", "flat", "compat"}
Extras == {"none", "alias", "cycle", "siblingM008", "locked", "flatM008"}

\* A folder of the data directory that is no setup folder: the scanners can
\* be called on it, the two drivers never look at it.
ExtraRoot == Append(data_dir_path, <<"Extra">>)
ExtraSub == Append(ExtraRoot, <<"sub">>)

\* Folder A's name, the name its marker files carry, and its shape: a folder
\* with a legacy name, and a folder left under its temporary name by a run
\* that was stopped after step 1.
OwnerA(kindA) == IF kindA \in {"flatBBB8", "flatBBB8NoSession", "compatBBB8"} THEN BBB8 ELSE M1
NameA(kindA) == IF kindA = "flatTemp" THEN TEMP \o M1 ELSE OwnerA(kindA)
ShapeA(kindA) ==
    CASE kindA \in {"flatBBB8", "flatTemp"} -> "flat"
      [] kindA = "flatBBB8NoSession" -> "flatNoSession"
      [] kindA = "compatBBB8" -> "compat"
      [] OTHER -> kindA
Skeleton == {<< <<>>, DirNode >>, <<data_dir_path, DirNode>>, <<SetupPath(1), DirNode>>}
ExtraEntries(extra, kindA) ==
    CASE extra = "alias" -> {<<Append(SetupPath(1), <<"L">>), LinkNode(PathA(NameA(kindA)))>>}
      [] extra = "cycle" -> {<<ExtraRoot, DirNode>>, <<ExtraSub, DirNode>>,
                             <<Append(ExtraSub, <<"loop">>), LinkNode(ExtraSub)>>,
                             <<Append(ExtraSub, <<"deep">>), DirNode>>}
                            \cup At(Append(ExtraSub, M2), Shape("flat", M2, 10))
                            \cup At(Append(Append(ExtraSub, <<"deep">>), M1), Shape("compat", M1, 30))
      [] extra = "siblingM008" -> At(PathA(M008), Shape("plain", M008, 20))
      [] extra = "flatM008" -> At(PathA(M008), Shape("flat", M008, 20))
      [] extra = "locked" -> {<<ExtraRoot, DirNode>>, <<ExtraSub, DirNode>>,
                              <<Append(ExtraSub, Other), LockedDirNode>>}
                             \cup At(Append(ExtraSub, M1), Shape("flat", M1, 10))
                             \cup At(Append(ExtraSub, M2), Shape("compat", M2, 20))
                             \cup At(Append(Append(ExtraSub, Other), M1), Shape("flat", M1, 30))
      [] OTHER -> {}
InitTree(kindA, kindB, extra) ==
    TreeOf(Skeleton
           \cup At(PathA(NameA(kindA)), Shape(ShapeA(kindA), OwnerA(kindA), 0))
           \cup (IF kindB = "none" THEN {}
                 ELSE {<<SetupPath(2), DirNode>>, <<SubB, DirNode>>} \cup At(PathB, Shape(kindB, M2, 10)))
           \cup ExtraEntries(extra, kindA))

\* Every kind of folder A alone; two folders under two roots; and the
\* trees with a symbolic link or with a sibling that a legacy rename meets.
InitTrees ==
    {InitTree(a, "none", "none") : a \in KindsA}
    \cup {InitTree(a, b, "none") : a \in {"flat", "compat"}, b \in {"flat", "compat"}}
    \cup {InitTree(a, "none", "alias") : a \in {"flat", "compat"}}
    \cup {InitTree(a, "none", "cycle") : a \in {"plain", "flat"}}
    \cup {InitTree("flatBBB8", "none", "siblingM008")}
    \cup {InitTree("plain", "none", "locked")}
    \cup {InitTree("flatBBB8", "none", "flatM008")}

----------------------------------------------------------------------------
(* State *)

NoCall == [op |-> "none", arg |-> <<>>, dir |-> <<>>, outcome |-> "none", session |-> <<>>,
           flat |-> <<>>, failed_at |-> "none", restore |-> "none",
           ret |-> FALSE, stage |-> "none", moved |-> <<>>, warned |-> <<>>, hidden |-> <<>>,
           raised |-> FALSE, removed |-> FALSE]
NoAnchor == [stage |-> "none", dir |-> <<>>, session |-> <<>>, sub |-> <<>>, real |-> FALSE]
NoRun == [mode |-> "none", discovered |-> {}, attempted |-> {}, roots |-> {}, aborted |-> FALSE,
          clean |-> TRUE, prev_mode |-> "none", prev_clean |-> FALSE,
          calls |-> 0, succeeded |-> {}]
NoScan == [fn |-> "none", root |-> <<>>, max_depth |-> 0, res |-> NoResult]
NoExt == [called |-> FALSE, stem |-> <<>>, owner |-> <<>>, session_name |-> <<>>]
NoCls == [called |-> FALSE, dir |-> <<>>, compatible |-> FALSE, flat |-> FALSE, clean |-> FALSE]
\* dataset_to_nwb has not been called
NoPool == [main |-> "none"]

Init ==
    /\ fs \in InitTrees
    /\ run = "none"
    /\ setup_idx = 1
    /\ queue = <<>>
    /\ total_found = 0
    /\ total_unorganized = 0
    /\ nruns = 0
    /\ pre = fs
    /\ last = NoCall
    /\ anchor = NoAnchor
    /\ runlog = NoRun
    /\ scan = NoScan
    /\ cls = NoCls
    /\ ext = NoExt
    /\ fresh = TRUE
    /\ pool = NoPool

----------------------------------------------------------------------------
(* The drivers: reorganize_data and unorganize_data *)

\* The history of the round trip: after a successful nesting of dir the
\* anchor holds what dir held flat (real: dir was a directory, not a link to one); an unorganize_folder of the same dir that
\* ran its loop to the end without a raised move closes the trip.
AnchorAfterMnc(r) ==
    IF r.outcome = "done"
    THEN [stage |-> "nested", dir |-> r.dir, session |-> r.session,
          sub |-> Subtree(r.flat, r.dir), real |-> KindAt(r.flat, Loc(r.flat, r.dir)) = "dir"]
    ELSE IF anchor.stage = "nested" /\ anchor.dir \notin {r.dir, last.arg} /\ r.outcome # "raised"
    THEN anchor ELSE NoAnchor
AnchorAfterUnorg(folder, r) ==
    IF anchor.stage = "nested" /\ anchor.dir = folder
    THEN IF r.ret THEN [anchor EXCEPT !.stage = "flattened"] ELSE NoAnchor
    ELSE IF anchor.stage = "nested" THEN anchor ELSE NoAnchor

StartRun(mode) ==
    /\ fresh' = FALSE
    /\ run = "none"
    /\ nruns < MaxRuns
    /\ run' = mode
    /\ nruns' = nruns + 1
    /\ setup_idx' = 1
    /\ queue' = <<>>
    /\ total_found' = 0
    /\ total_unorganized' = 0
    /\ runlog' = [NoRun EXCEPT !.mode = mode, !.prev_mode = runlog.mode,
                                !.prev_clean = runlog.clean /\ ~runlog.aborted]
    /\ scan' = NoScan
    /\ cls' = NoCls
    /\ ext' = NoExt
    /\ pre' = fs
    /\ last' = NoCall
    /\ UNCHANGED <<pool, fs, anchor>>

\* if not setup_folder.exists(): continue
SkipMissingRoot ==
    /\ fresh' = FALSE
    /\ run # "none"
    /\ queue = <<>>
    /\ setup_idx <= Len(setup_folders)
    /\ ~Exists(fs, SetupPath(setup_idx))
    /\ setup_idx' = setup_idx + 1
    /\ runlog' = [runlog EXCEPT !.roots = @ \cup {setup_idx}]
    /\ UNCHANGED <<pool, fs, run, queue, total_found, total_unorganized, nruns, pre, last, anchor,
                   scan, cls, ext>>

Elems(seq) == {seq[i] : i \in 1..Len(seq)}

\* tdt_folders = find_tdt_folders(setup_folder)
QueueOrganize(tdt_folders) ==
    /\ queue' = tdt_folders
    /\ runlog' = [runlog EXCEPT !.roots = @ \cup {setup_idx},
                                !.discovered = @ \cup Elems(tdt_folders)]
ScanRootOrganize ==
    /\ fresh' = FALSE
    /\ run = "organize"
    /\ queue = <<>>
    /\ setup_idx <= Len(setup_folders)
    /\ Exists(fs, SetupPath(setup_idx))
    /\ \E ord \in Orders :
          QueueOrganize(find_tdt_folders(fs, SetupPath(setup_idx), DefaultMaxDepth, ord).found)
    /\ setup_idx' = setup_idx + 1
    /\ UNCHANGED <<pool, fs, run, total_found, total_unorganized, nruns, pre, last, anchor, scan, cls, ext>>

\* neo_folders = find_neo_compatible_folders(setup_folder); total_found += len(neo_folders)
QueueUnorganize(neo_folders) ==
    /\ queue' = neo_folders
    /\ total_found' = total_found + Len(neo_folders)
    /\ runlog' = [runlog EXCEPT !.roots = @ \cup {setup_idx},
                                !.discovered = @ \cup Elems(neo_folders)]
ScanRootUnorganize ==
    /\ fresh' = FALSE
    /\ run = "unorganize"
    /\ queue = <<>>
    /\ setup_idx <= Len(setup_folders)
    /\ Exists(fs, SetupPath(setup_idx))
    /\ \E ord \in Orders :
          QueueUnorganize(find_neo_compatible_folders(fs, SetupPath(setup_idx),
                                                      DefaultMaxDepth, ord).found)
    /\ setup_idx' = setup_idx + 1
    /\ UNCHANGED <<pool, fs, run, total_unorganized, nruns, pre, last, anchor, scan, cls, ext>>

\* make_neo_compatible(tdt_folder, tdt_folder.parent) for the next folder of
\* the list.  An exception that leaves make_neo_compatible leaves
\* reorganize_data too: nothing catches it.
OrganizeApply(tdt_folder, r) ==
    /\ fs' = r.fs
    /\ pre' = fs
    /\ last' = [NoCall EXCEPT !.op = "make_neo_compatible", !.arg = tdt_folder,
                              !.dir = r.dir, !.outcome = r.outcome,
                              !.session = r.session, !.flat = r.flat,
                              !.failed_at = r.failed_at, !.restore = r.restore,
                              !.raised = (r.outcome = "raised")]
    /\ anchor' = AnchorAfterMnc(r)
    /\ runlog' = [runlog EXCEPT !.attempted = @ \cup {tdt_folder},
                                !.calls = @ + 1,
                                !.aborted = (r.outcome = "raised"),
                                !.clean = @ /\ r.outcome \notin {"raised", "failed"}]
    /\ IF r.outcome = "raised"
       THEN run' = "none" /\ queue' = <<>>
       ELSE run' = run /\ queue' = Tail(queue)
OrganizeFolder ==
    /\ fresh' = TRUE
    /\ run = "organize"
    /\ queue # <<>>
    /\ \E ord \in Orders, fault \in Faults :
          OrganizeApply(Head(queue),
                        make_neo_compatible(fs, Head(queue), Parent(Head(queue)), ord, fault))
    /\ UNCHANGED <<pool, setup_idx, total_found, total_unorganized, nruns, scan, cls, ext>>

\* The names a move can be made to fail at: the names of the files of the
\* tree, or none.
FailNames(f) == {<<>>} \cup {Name(q) : q \in {q \in DOMAIN f : f[q].kind = "file"}}

\* variant for C27: every call is counted
CountedAlways(n, ret) == n + 1
\* if unorganize_folder(folder): total_unorganized += 1
Counted(n, ret) == IF ret THEN n + 1 ELSE n
UnorganizeApply(folder, r) ==
    /\ fs' = r.fs
    /\ pre' = fs
    /\ last' = [NoCall EXCEPT !.op = "unorganize_folder", !.arg = folder, !.dir = folder,
                              !.ret = r.ret, !.stage = r.stage, !.moved = r.moved,
                              !.warned = r.warned, !.hidden = r.hidden,
                              !.raised = r.raised, !.removed = r.removed]
    /\ anchor' = AnchorAfterUnorg(folder, r)
    /\ total_unorganized' = Counted(total_unorganized, r.ret)
    /\ runlog' = [runlog EXCEPT !.attempted = @ \cup {folder}, !.clean = @ /\ r.ret,
                                !.calls = @ + 1,
                                !.succeeded = IF r.ret THEN @ \cup {folder} ELSE @]
UnorganizeFolder ==
    /\ fresh' = TRUE
    /\ run = "unorganize"
    /\ queue # <<>>
    /\ \E ord \in Orders, fail_at \in FailNames(fs) :
          UnorganizeApply(Head(queue), unorganize_folder(fs, Head(queue), ord, fail_at))
    /\ queue' = Tail(queue)
    /\ UNCHANGED <<pool, run, setup_idx, total_found, nruns, scan, cls, ext>>

\* the loop over setup_folders is over (and unorganize_data prints its summary)
EndRun ==
    /\ fresh' = FALSE
    /\ run # "none"
    /\ queue = <<>>
    /\ setup_idx > Len(setup_folders)
    /\ run' = "none"
    /\ UNCHANGED <<pool, fs, setup_idx, queue, total_found, total_unorganized, nruns, pre, last,
                   anchor, runlog, scan, cls, ext>>

----------------------------------------------------------------------------
(* Direct calls of the scanners and of the classifier, between runs *)

\* marker file(s) directly inside the directory, shadow entries excluded
HasMarker(f, d, ord) == TsqFiles(f, d, ord) # <<>>

Dirs(f) == {p \in DOMAIN f : f[p].kind = "dir"}

\* A direct call is looked at on its own: the history of the drivers' calls
\* starts afresh.
Observe ==
    /\ pre' = fs
    /\ last' = NoCall
    /\ runlog' = NoRun

\* the folders a scanner is called on
ScanRoots ==
    {SetupPath(i) : i \in 1..Len(setup_folders)} \cup {ExtraRoot, Append(PathA(M1), SessionRun)}

CallScanner ==
    /\ fresh' = FALSE
    /\ run = "none"
    /\ scan = NoScan /\ cls = NoCls /\ ext = NoExt
    /\ \E fn \in {"find_tdt_folders", "find_neo_compatible_folders"},
          root \in ScanRoots, max_depth \in 0..MaxDepthArg, ord \in Orders :
          /\ Exists(fs, root)
          /\ scan' = [fn |-> fn, root |-> root, max_depth |-> max_depth,
                      res |-> IF fn = "find_tdt_folders"
                              THEN find_tdt_folders(fs, root, max_depth, ord)
                              ELSE find_neo_compatible_folders(fs, root, max_depth, ord)]
    /\ cls' = NoCls
    /\ Observe
    /\ UNCHANGED <<pool, fs, run, setup_idx, queue, total_found, total_unorganized, nruns, anchor, ext>>

\* clean: this call follows a call on the same directory with nothing in between
CallClassifier ==
    /\ fresh' = FALSE
    /\ run = "none"
    /\ scan = NoScan /\ ~cls.clean /\ ext = NoExt
    /\ \E d \in Dirs(fs), ord \in Orders :
          /\ cls.called => d = cls.dir
          /\ cls' = [called |-> TRUE, dir |-> d, compatible |-> is_neo_compatible_u(fs, d, ord),
                     flat |-> HasMarker(fs, d, ord), clean |-> cls.called]
    /\ scan' = NoScan
    /\ Observe
    /\ UNCHANGED <<pool, fs, run, setup_idx, queue, total_found, total_unorganized, nruns, anchor, ext>>

\* The stems and folder names extract_session_name is called with: names of
\* up to MaxStemLen atoms.
RECURSIVE NamesUpTo(_, _)
NamesUpTo(atoms, n) ==
    IF n = 0 THEN {<<>>}
    ELSE NamesUpTo(atoms, n - 1)
         \cup {Append(s, a) : s \in NamesUpTo(atoms, n - 1), a \in atoms}
StemAtoms == {"Run", "_", "M1"}
Stems == NamesUpTo(StemAtoms, MaxStemLen) \ {<<>>}
OwnerNames == {M1, <<"M1", "_", "M1">>}

CallExtract ==
    /\ fresh' = FALSE
    /\ run = "none" /\ nruns = 0
    /\ scan = NoScan /\ cls = NoCls /\ ext = NoExt
    /\ \E stem \in Stems, owner \in OwnerNames :
          ext' = [called |-> TRUE, stem |-> stem, owner |-> owner,
                  session_name |-> extract_session_name(<<Append(stem, TSQ)>>, owner)]
    /\ Observe
    /\ UNCHANGED <<pool, fs, run, setup_idx, queue, total_found, total_unorganized, nruns, anchor,
                   scan, cls>>

Next ==
    \/ StartRun("organize")
    \/ StartRun("unorganize")
    \/ SkipMissingRoot
    \/ ScanRootOrganize
    \/ ScanRootUnorganize
    \/ OrganizeFolder
    \/ UnorganizeFolder
    \/ EndRun
    \/ CallScanner
    \/ CallClassifier
    \/ CallExtract

Spec == Init /\ [][Next]_vars

----------------------------------------------------------------------------
(* Properties *)

\* The two structural states, as the specification words them.
ChildDirs(f, p) == {n \in ChildNames(f, p) : ~IsShadow(n) /\ IsDir(f, Append(p, n))}
IsFlat(f, d) == \E n \in ChildNames(f, d) : MatchesTsq(n) /\ ~IsShadow(n)
IsCompatible(f, d) ==
    \E n1 \in ChildDirs(f, d) : ChildDirs(f, d) = {n1} /\ ChildDirs(f, Append(d, n1)) = {Name(d)}
DirPaths(f) == {p \in DOMAIN f : IsDir(f, p)}

\* the inner directory of d: d / session / d.name
InnerOf(d, session) == Append(Append(d, session), Name(d))
\* the entry at location l with all that is below it
NodeAt(f, l) ==
    IF l \in DOMAIN f THEN f[l] ELSE [kind |-> "absent", id |-> 0, to |-> <<>>, locked |-> FALSE]
EntryAt(f, l) == [node |-> NodeAt(f, l), below |-> SubtreeAt(f, l)]

\* C1: a flat directory (a real directory, with no entry named like the
\* session) that make_neo_compatible nested and unorganize_folder then
\* flattened holds exactly the entries it held before, with the middle and
\* inner directories gone.
C1_RoundTrip ==
    (/\ anchor.stage = "flattened"
     /\ anchor.real
     /\ <<anchor.session>> \notin DOMAIN anchor.sub)
    => Subtree(fs, anchor.dir) = anchor.sub
\* a round trip that did come back to the flat directory
C1_Trip ==
    /\ anchor.stage = "flattened"
    /\ anchor.real
    /\ Subtree(fs, anchor.dir) = anchor.sub

\* C2: when one of the steps after the temporary rename fails, the call
\* leaves the directory with exactly its original entries under its
\* original path, and no temp_<name> sibling.
StepFailed ==
    /\ last.op = "make_neo_compatible"
    /\ last.outcome = "failed"
    /\ last.failed_at \in {"mkdir_outer", "mkdir_middle", "step3"}
C2_Rollback ==
    StepFailed =>
        /\ Subtree(fs, last.dir) = Subtree(last.flat, last.dir)
        /\ NodeAt(fs, Loc(fs, last.dir)) = NodeAt(last.flat, Loc(last.flat, last.dir))
        /\ ~LExists(fs, TempPath(last.dir, Parent(last.dir)))
\* a rollback that did restore the directory
C2_Restored ==
    /\ StepFailed
    /\ last.restore = "ok"
    /\ fs = last.flat

\* C3: unorganize_folder never touches a colliding pair: the outer x (below
\* it too, unless x is the session folder the entries leave) and the inner x
\* stay as they were, and when no move raised x is warned about
\* exactly once and every other non-hidden inner entry has moved up.
Moving == last.op = "unorganize_folder" /\ last.stage = "moved"
SessionOf(f, d) == CHOOSE n \in ChildDirs(f, d) : TRUE
InnerLoc(f, d) == Resolve(f, InnerOf(d, SessionOf(f, d)))
Colliding(f, d) ==
    {x \in NamesAt(f, InnerLoc(f, d)) : ~IsShadow(x) /\ Exists(f, Append(d, x))}
Count(seq, x) == Cardinality({i \in 1..Len(seq) : seq[i] = x})
C3_NoOverwrite ==
    Moving =>
        /\ \A x \in Colliding(pre, last.dir) :
              /\ NodeAt(fs, Append(Resolve(pre, last.dir), x))
                    = NodeAt(pre, Append(Resolve(pre, last.dir), x))
              /\ x # SessionOf(pre, last.dir) =>
                    SubtreeAt(fs, Append(Resolve(pre, last.dir), x))
                       = SubtreeAt(pre, Append(Resolve(pre, last.dir), x))
              /\ EntryAt(fs, Append(InnerLoc(pre, last.dir), x))
                    = EntryAt(pre, Append(InnerLoc(pre, last.dir), x))
              /\ Count(last.warned, x) <= 1
              /\ ~last.raised => Count(last.warned, x) = 1
        /\ ~last.raised =>
              \A y \in NamesAt(pre, InnerLoc(pre, last.dir)) \ Colliding(pre, last.dir) :
                  ~IsShadow(y) =>
                     /\ EntryAt(fs, Append(Resolve(pre, last.dir), y))
                           = EntryAt(pre, Append(InnerLoc(pre, last.dir), y))
                     /\ Append(InnerLoc(pre, last.dir), y) \notin DOMAIN fs
\* a call that met a collision and moved another entry up
C3_Collision ==
    /\ Moving
    /\ ~last.raised
    /\ Colliding(pre, last.dir) # {}
    /\ last.moved # <<>>

\* C4: after the three steps ran, the original entries are at
\* dir/session/dir.name and nowhere else, dir has one child, the session
\* folder has one child, and the classifier says Compatible.
Nested3 == last.op = "make_neo_compatible" /\ last.outcome = "done"
C4_Postcondition ==
    Nested3 =>
        /\ Subtree(fs, InnerOf(last.dir, last.session)) = Subtree(last.flat, last.dir)
        /\ ChildNames(fs, last.dir) = {last.session}
        /\ ChildNames(fs, Append(last.dir, last.session)) = {Name(last.dir)}
        /\ ~LExists(fs, TempPath(last.dir, Parent(last.dir)))
        /\ Cardinality(DOMAIN fs) = Cardinality(DOMAIN last.flat) + 2
        /\ \A ord \in Orders : is_neo_compatible(fs, last.dir, ord)
\* a flat directory with files has been nested
C4_Done ==
    /\ Nested3
    /\ IsFlat(last.flat, last.dir)
    /\ IsFlat(fs, InnerOf(last.dir, last.session))

\* C5: no directory is at once Flat and Compatible.
C5_Exclusive == \A d \in DirPaths(fs) : ~(IsFlat(fs, d) /\ IsCompatible(fs, d))
\* both operations have run and the tree holds a Compatible directory
C5_BothRan ==
    /\ nruns = MaxRuns
    /\ last.op = "unorganize_folder"
    /\ \E d \in DirPaths(fs) : IsCompatible(fs, d)

\* C6: the list a scanner returns holds no two folders with the same
\* resolved path.
Scanned1 == scan.fn # "none"
C6_NoDuplicates ==
    Scanned1 =>
        \A i, j \in 1..Len(scan.res.found) :
            i # j => Resolve(fs, scan.res.found[i]) # Resolve(fs, scan.res.found[j])
\* a scan that came to one directory along two paths and returned it
C6_TwoPaths ==
    /\ Scanned1
    /\ \E v \in scan.res.visited, w \in scan.res.visited :
          /\ v[1] # w[1]
          /\ Resolve(fs, v[1]) = Resolve(fs, w[1])
          /\ v[1] \in Elems(scan.res.found)
          /\ IF scan.fn = "find_tdt_folders" THEN IsFlat(fs, w[1]) ELSE IsCompatible(fs, w[1])

\* C7 as the specification has it: no directory deeper than max_depth is
\* entered or listed, and every match is at depth at most max_depth.
C7_DepthBound ==
    Scanned1 =>
        /\ \A v \in scan.res.visited \cup scan.res.listed : v[2] <= scan.max_depth
        /\ \A m \in scan.res.matched : m[2] <= scan.max_depth
\* C7, amended: search runs on no directory deeper than max_depth and every
\* match is at depth at most max_depth; find_tdt_folders lists no directory
\* deeper than max_depth, find_neo_compatible_folders lists one level more
\* (the classifier lists the only child of a directory at max_depth).
C7_DepthBoundAmended ==
    Scanned1 =>
        /\ \A v \in scan.res.visited : v[2] <= scan.max_depth
        /\ \A m \in scan.res.matched : m[2] <= scan.max_depth
        /\ \A l \in scan.res.listed :
              l[2] <= IF scan.fn = "find_tdt_folders" THEN scan.max_depth
                      ELSE scan.max_depth + 1
\* a scan of a tree with a link cycle that went down to max_depth along the
\* cycle and listed a directory one level below it
C7_Cycle ==
    /\ scan.fn = "find_neo_compatible_folders"
    /\ scan.root = ExtraRoot
    /\ \E v \in scan.res.visited : v[2] = scan.max_depth /\ Name(v[1]) = <<"loop">>
    /\ \E l \in scan.res.listed : l[2] = scan.max_depth + 1

\* C8: a run that is over has looked at every root and has called the
\* transformer on every directory it discovered.
RunOver == run = "none" /\ runlog.mode # "none"
C8_Isolation ==
    RunOver =>
        /\ runlog.roots = 1..Len(setup_folders)
        /\ runlog.discovered \subseteq runlog.attempted
\* a run that went to its end after one directory failed
C8_Contained ==
    /\ RunOver
    /\ ~runlog.aborted
    /\ runlog.roots = 1..Len(setup_folders)
    /\ \/ last.outcome = "failed"
       \/ last.op = "unorganize_folder" /\ last.raised

\* C9: both classifiers say Compatible exactly for the directories with one
\* non-shadow child directory that has one non-shadow child directory named
\* like the directory itself, in whatever order entries are listed.  (Every
\* tree is looked at once, in the state that first has it: the initial
\* state or the state after the call that wrote it.  The copy in
\* reorganize_data.py is compared where it returns at all.)
C9_Classifier ==
    /\ fresh => \A d \in DirPaths(fs), ord \in Orders :
          /\ ~is_neo_compatible_raises(fs, d, ord) =>
                is_neo_compatible(fs, d, ord) = IsCompatible(fs, d)
          /\ is_neo_compatible_u(fs, d, ord) = IsCompatible(fs, d)
    /\ cls.called => cls.compatible = IsCompatible(fs, cls.dir)
\* the classifier said Compatible for a directory with shadow directories
\* and plain files at both levels
C9_Shadowed ==
    /\ cls.called
    /\ cls.compatible
    /\ IsDir(fs, Append(cls.dir, ShadowDir))
    /\ IsDir(fs, Append(Append(cls.dir, SessionRun), ShadowDir))
    /\ \E n \in ChildNames(fs, cls.dir) : IsFile(fs, Append(cls.dir, n))
    /\ \E n \in ChildNames(fs, Append(cls.dir, SessionRun)) :
          IsFile(fs, Append(Append(cls.dir, SessionRun), n))

\* C10: a call of the classifier leaves the tree as it is, and a second
\* call on the same directory gives the same two answers as the first.
C10_Pure ==
    [][(cls'.called /\ cls' # cls) =>
          /\ fs' = fs
          /\ (cls.called /\ cls'.dir = cls.dir) =>
                (cls'.compatible = cls.compatible /\ cls'.flat = cls.flat)]_vars
\* the classifier was called twice in a row on a directory with two
\* directories below its only child
C10_Twice ==
    /\ cls.clean
    /\ Cardinality(ChildDirs(fs, cls.dir)) = 1
    /\ Cardinality(ChildDirs(fs, Append(cls.dir, SessionOf(fs, cls.dir)))) = 2

\* The directories a scan from root with bound max_depth has to decide on:
\* at most max_depth levels below root, no shadow name on the way down from
\* root, and no directory above them (from root down) that is itself Flat or
\* Compatible.
Below(root, d) == {SubSeq(d, 1, i) : i \in Len(root)..(Len(d) - 1)}
InScope(f, root, max_depth) ==
    {d \in DirPaths(f) :
        /\ IsUnder(d, root)
        /\ Len(d) - Len(root) <= max_depth
        /\ \A i \in (Len(root) + 1)..Len(d) : ~IsShadow(d[i])
        /\ \A a \in Below(root, d) : ~IsFlat(f, a) /\ ~IsCompatible(f, a)}
Returned == {Resolve(fs, scan.res.found[i]) : i \in 1..Len(scan.res.found)}

\* C11: find_tdt_folders returns a directory it has to decide on exactly
\* when the directory is Flat or Compatible, and every directory it returns
\* is Flat or Compatible.
C11_Scanner ==
    scan.fn = "find_tdt_folders" =>
        /\ \A d \in InScope(fs, scan.root, scan.max_depth) :
              (d \in Returned) <=> (IsFlat(fs, d) \/ IsCompatible(fs, d))
        /\ \A d \in Returned : IsFlat(fs, d) \/ IsCompatible(fs, d)
\* a scan that returned a directory holding no marker file, neither Flat nor
\* Compatible, and left out the Flat directory two levels below it
C11_Grandparent ==
    /\ scan.fn = "find_tdt_folders"
    /\ \E d \in Returned :
          /\ ~IsFlat(fs, d) /\ ~IsCompatible(fs, d)
          /\ \A n \in ChildNames(fs, d) : ~MatchesTsq(n)
          /\ \E e \in InScope(fs, scan.root, scan.max_depth) :
                IsUnder(e, d) /\ Len(e) = Len(d) + 2 /\ IsFlat(fs, e) /\ e \notin Returned

\* The name with the first occurrence of owner, and the separator before
\* it, taken out.
FirstAt(s, o) ==
    CHOOSE i \in 1..(Len(s) - Len(o) + 1) :
        /\ SubSeq(s, i, i + Len(o) - 1) = o
        /\ \A j \in 1..(i - 1) : SubSeq(s, j, j + Len(o) - 1) # o
CutAt(s, o, i) ==
    SubSeq(s, 1, (IF i > 1 /\ s[i - 1] = "_" THEN i - 1 ELSE i) - 1)
        \o SubSeq(s, i + Len(o), Len(s))
RemoveFirst(s, o) == IF ~Contains(s, o) THEN s ELSE CutAt(s, o, FirstAt(s, o))
\* nothing but the owner's name and separators
OnlyOwner(s, o) == Strip(Replace(s, o, <<>>), {"_"}) = <<>>
\* the stem is <session>_<owner> for a session without a separator at its ends
SessionForm(stem, session, owner) ==
    /\ session # <<>>
    /\ Strip(session, {"_"}) = session
    /\ stem = session \o <<"_">> \o owner

\* C12: extract_session_name gives the stem with the first occurrence of the
\* owner's name and its separator removed and the ends trimmed; for a stem
\* <session>_<owner> that is <session>; and the result is empty exactly when
\* the stem holds nothing but the owner's name and separators.
C12_SessionName ==
    ext.called =>
        /\ ext.session_name = Strip(RemoveFirst(ext.stem, ext.owner), {"_"})
        /\ \A session \in Stems :
              SessionForm(ext.stem, session, ext.owner) => ext.session_name = session
        /\ (ext.session_name = <<>>) <=> OnlyOwner(ext.stem, ext.owner)
\* a stem <session>_<owner> for which something else than <session> came back
C12_Shortened ==
    /\ ext.called
    /\ \E session \in Stems :
          /\ SessionForm(ext.stem, session, ext.owner)
          /\ ext.session_name # session

\* The call was made on a directory named temp_<name> while no <name> stood
\* beside it: what a forward transformation stopped after step 1 leaves.
OnTemp ==
    /\ last.op = "make_neo_compatible"
    /\ StartsWith(Name(last.arg), TEMP)
    /\ IsDir(pre, last.arg)
    /\ ~LExists(pre, Append(Parent(last.arg), SubSeq(Name(last.arg), Len(TEMP) + 1,
                                                     Len(Name(last.arg)))))

\* C13: a directory that exists only under its temporary name temp_<name>
\* is not transformed by a later organize run: the tree is left as it was.
C13_TempSkipped == OnTemp => fs = pre /\ last.outcome \notin {"done", "failed"}
\* an organize run found temp_<name> and nested it as if it were a data directory
C13_TempNested ==
    /\ OnTemp
    /\ last.outcome = "done"
    /\ IsCompatible(fs, last.arg)

\* a name one of the four legacy rules applies to
IsLegacyName(n) ==
    Contains(n, BBB8) \/ Contains(n, M008) \/ Contains(n, Suffix0725) \/ n = M376_M501_folder
\* The call reached the session name: no shadow name, no exception in the
\* legacy rules, the directory (as the legacy rules left it) not Compatible
\* and holding non-hidden marker files.
ReachedName ==
    /\ last.op = "make_neo_compatible"
    /\ ~IsShadow(Name(last.arg))
    /\ last.outcome # "raised"
    /\ ~IsCompatible(last.flat, last.dir)
    /\ TsqFiles(last.flat, last.dir, "fwd") # <<>>
\* every marker file gives the empty session name
EmptyName ==
    /\ ReachedName
    /\ \A m \in Elems(TsqFiles(last.flat, last.dir, "fwd")) :
          extract_session_name(m, Name(last.dir)) = <<>>

\* C14 as the specification has it: with an empty session name the call
\* changes nothing at all.
C14_Skip == EmptyName => last.outcome = "no_session" /\ fs = pre
\* C14, amended: with an empty session name the call returns after the
\* legacy rules: it makes no temporary rename and no directory, the tree is
\* as the legacy rules left it, and unchanged when no legacy rule applies to
\* the directory's name.
C14_SkipAmended ==
    EmptyName =>
        /\ last.outcome = "no_session"
        /\ fs = last.flat
        /\ ~IsLegacyName(Name(last.arg)) => fs = pre
        /\ Cardinality(DirPaths(fs)) = Cardinality(DirPaths(pre))
        /\ ~LExists(fs, TempPath(last.dir, Parent(last.arg)))
\* a Flat directory whose marker file is named like the directory was skipped
C14_Skipped ==
    /\ EmptyName
    /\ IsFlat(pre, last.arg)
    /\ last.outcome = "no_session"
    /\ fs = pre

\* The call got past the legacy rules on a directory that holds no
\* non-hidden marker file, or more than one.
Ambiguous ==
    /\ last.op = "make_neo_compatible"
    /\ ~IsShadow(Name(last.arg))
    /\ last.outcome # "raised"
    /\ Len(TsqFiles(last.flat, last.dir, "fwd")) # 1

\* C15: a directory with no non-hidden marker file, or with more than one,
\* is only reported: no temporary rename, no nesting, the tree stays as it
\* was when the marker files were counted.
C15_AmbiguousSkipped ==
    Ambiguous => fs = last.flat /\ last.outcome \in {"already", "no_tsq"}
\* a directory with two marker files was nested, under the session name of
\* whichever marker file the listing gave first
C15_FirstUsed ==
    /\ Ambiguous
    /\ Len(TsqFiles(last.flat, last.dir, "fwd")) = 2
    /\ last.outcome = "done"
    /\ IsCompatible(fs, last.dir)
    /\ last.session = <<"Ran">>

\* The last call was made by an organize run that began right after an
\* organize run that went to its end with no call failing.
InSecondRun ==
    /\ runlog.mode = "organize"
    /\ runlog.prev_mode = "organize"
    /\ runlog.prev_clean
    /\ runlog.attempted # {}
    /\ last.op = "make_neo_compatible"

\* C16: an organize run right after a completed organize run changes
\* nothing, and make_neo_compatible leaves a directory that is already
\* Compatible, whatever its name, as it was.
C16_Rerun ==
    /\ InSecondRun => fs = pre
    /\ (last.op = "make_neo_compatible" /\ IsCompatible(pre, last.arg)) => fs = pre
\* a Compatible directory with a legacy name was renamed and is Compatible
\* no more
C16_Renamed ==
    /\ last.op = "make_neo_compatible"
    /\ IsCompatible(pre, last.arg)
    /\ last.dir # last.arg
    /\ ~LExists(fs, last.arg)
    /\ ~IsCompatible(fs, last.dir)

\* A move raised after other entries had been moved up.
MoveRaised == Moving /\ last.raised /\ last.moved # <<>>

\* C17: when a move raises part-way through unorganize_folder the directory
\* is put back: the tree is as it was before the call, the directory is
\* Compatible, and the call reports failure.
C17_InverseRollback ==
    MoveRaised => fs = pre /\ IsCompatible(fs, last.dir) /\ ~last.ret
\* after a move raised, data files lie both in the directory and in the
\* inner directory
C17_Split ==
    /\ MoveRaised
    /\ ~last.ret
    /\ \E x \in Elems(last.moved) : IsFile(fs, Append(last.dir, x))
    /\ \E n \in NamesAt(fs, InnerLoc(pre, last.dir)) : ~IsShadow(n)

\* C18: when unorganize_folder returns True the inner and the middle
\* directory are gone and the directory is not Compatible.
C18_SuccessMeansFlat ==
    (last.op = "unorganize_folder" /\ last.ret) =>
        /\ InnerLoc(pre, last.dir) \notin DOMAIN fs
        /\ Parent(InnerLoc(pre, last.dir)) \notin DOMAIN fs
        /\ ~IsCompatible(fs, last.dir)
\* unorganize_folder returned True and the directory is still Compatible,
\* with data left in the inner directory
C18_StillNested ==
    /\ last.op = "unorganize_folder"
    /\ last.ret
    /\ IsCompatible(fs, last.dir)
    /\ HasEntries(fs, InnerLoc(pre, last.dir))

\* a lies strictly above p
IsAbove(a, p) == a # p /\ IsUnder(p, a)

\* C19: of the directories one scan returns, none lies above or below
\* another.
C19_Leaves ==
    Scanned1 =>
        \A i, j \in 1..Len(scan.res.found) :
            /\ ~IsAbove(scan.res.found[i], scan.res.found[j])
            /\ ~IsAbove(Resolve(fs, scan.res.found[i]), Resolve(fs, scan.res.found[j]))
\* find_tdt_folders returned a directory and a Flat directory two levels
\* below it
C19_Above ==
    /\ scan.fn = "find_tdt_folders"
    /\ \E i, j \in 1..Len(scan.res.found) :
          /\ IsAbove(scan.res.found[i], scan.res.found[j])
          /\ Len(scan.res.found[j]) = Len(scan.res.found[i]) + 2
          /\ IsFlat(fs, scan.res.found[j])

\* listing d, or the only child directory of d, fails
ListingFails(f, d) ==
    \/ Unreadable(f, d)
    \/ \E n \in ChildDirs(f, d) : ChildDirs(f, d) = {n} /\ Unreadable(f, Append(d, n))

\* C20: when a listing fails the classifier answers "not Compatible" and
\* raises nothing: no call of make_neo_compatible ends with an exception out
\* of its classifier, and a direct call answers FALSE.
C20_NoRaise ==
    /\ last.op = "make_neo_compatible" => last.failed_at # "classify"
    /\ (cls.called /\ ListingFails(fs, cls.dir)) => ~cls.compatible
\* an organize run ended by the PermissionError the classifier let through
C20_Interrupted ==
    /\ last.op = "make_neo_compatible"
    /\ last.failed_at = "classify"
    /\ ListingFails(pre, last.arg)
    /\ runlog.aborted
    /\ run = "none"
    /\ fs = pre

\* C21: at every point of an organize run at most one of the directories
\* the run has worked on is left under its temporary name temp_<name>, its
\* own name holding no marker file.
InLimbo(f, d) ==
    /\ IsDir(f, TempPath(d, Parent(d)))
    /\ IsFlat(f, TempPath(d, Parent(d)))
    /\ ~(Exists(f, d) /\ IsFlat(f, d))
Limbo(f, attempted) == {d \in attempted : InLimbo(f, d)}
C21_OneLimbo ==
    runlog.mode = "organize" => Cardinality(Limbo(fs, runlog.attempted)) <= 1
\* a run that moved on after a rollback failed and left one directory under
\* its temporary name
C21_MovedOn ==
    /\ run = "organize"
    /\ last.op = "make_neo_compatible"
    /\ Cardinality(Limbo(fs, runlog.attempted)) = 1
    /\ ~InLimbo(fs, last.arg)
    /\ last.outcome = "done"

----------------------------------------------------------------------------
(* make_neo_compatible called on the folders the legacy rules are written for *)

MaxCalls == 2

Nested0725 == <<"M1", "(07", "(07", "25)", "25)">>
LegacyNames == {BBB8, M008, M1 \o Suffix0725, Nested0725, M376_M501_folder,
                M376_M501_folder \o Suffix0725}
\* the files of the folder: named after the mouse the recording was first
\* filed under
OldOwner(d) ==
    IF Contains(d, M008) THEN BBB8
    ELSE IF Contains(d, M376_M501) THEN <<"M374_M501", "-251001-071000">>
    ELSE Replace(d, Suffix0725, <<>>)
\* the names the rules give: to the folder, and to its files
Rewritten(n) == Replace(Replace(n, BBB8, M008), Suffix0725, <<>>)
NewOwner(d) == Replace(Replace(OldOwner(d), BBB8, M008), M374_M501, M376_M501)
LegacyExtras == {"none", "target_file", "target_dir", "sibling", "sibling_empty", "subdir"}
LegacyExtra(d, x) ==
    CASE x = "target_file" -> {<<Append(PathA(d), MarkerOf(NewOwner(d))), FileNode(5)>>}
      [] x = "target_dir" -> {<<Append(PathA(d), DataOf(NewOwner(d))), DirNode>>}
      [] x = "sibling" -> At(PathA(Rewritten(d)), Flat(Rewritten(d), 20))
      [] x = "sibling_empty" -> {<<PathA(Rewritten(d)), DirNode>>}
      [] x = "subdir" -> {<<Append(PathA(d), <<"old", "_">> \o OldOwner(d)), DirNode>>}
      [] OTHER -> {}
LegacyTree(d, x) == TreeOf(Skeleton \cup At(PathA(d), Flat(OldOwner(d), 0)) \cup LegacyExtra(d, x))
LegacyTrees ==
    {LegacyTree(d, "none") : d \in LegacyNames}
    \cup {LegacyTree(d, x) : d \in {BBB8, M1 \o Suffix0725},
                             x \in {"sibling", "sibling_empty", "subdir"}}
    \cup {LegacyTree(d, x) : d \in {BBB8, M008, M376_M501_folder},
                             x \in {"target_file", "target_dir", "subdir"}}

InitLegacy ==
    /\ fs \in LegacyTrees
    /\ run = "none"
    /\ setup_idx = 1
    /\ queue = <<>>
    /\ total_found = 0
    /\ total_unorganized = 0
    /\ nruns = 0
    /\ pre = fs
    /\ last = NoCall
    /\ anchor = NoAnchor
    /\ runlog = NoRun
    /\ scan = NoScan
    /\ cls = NoCls
    /\ ext = NoExt
    /\ fresh = TRUE
    /\ pool = NoPool

\* make_neo_compatible(tdt_folder, tdt_folder.parent) on a folder of the
\* first setup folder
CallApply(tdt_folder, r) ==
    /\ fs' = r.fs
    /\ pre' = fs
    /\ last' = [NoCall EXCEPT !.op = "make_neo_compatible", !.arg = tdt_folder,
                              !.dir = r.dir, !.outcome = r.outcome,
                              !.session = r.session, !.flat = r.flat,
                              !.failed_at = r.failed_at, !.restore = r.restore,
                              !.raised = (r.outcome = "raised")]
CallMakeNeoCompatible ==
    /\ nruns < MaxCalls
    /\ nruns' = nruns + 1
    /\ fresh' = TRUE
    /\ \E name \in ChildNames(fs, SetupPath(1)), ord \in Orders, fault \in LegacyFaults :
          /\ IsDir(fs, PathA(name))
          /\ CallApply(PathA(name),
                       make_neo_compatible(fs, PathA(name), SetupPath(1), ord, fault))
    /\ UNCHANGED <<pool, run, setup_idx, queue, total_found, total_unorganized, anchor, runlog,
                   scan, cls, ext>>

NextLegacy == CallMakeNeoCompatible
SpecLegacy == InitLegacy /\ [][NextLegacy]_vars

\* C22: a call of make_neo_compatible whose legacy rules raised nothing has
\* left a folder on which the four rules, applied again, attempt no rename
\* and leave every name as it is.
RulesPassed ==
    /\ last.op = "make_neo_compatible"
    /\ last.outcome \notin {"hidden", "raised"}
Settled(f, d, ord) ==
    LegacyRules(f, d, ord, "none")
        = [fs |-> f, tdt_folder |-> d, raised |-> FALSE, tried |-> FALSE, fault |-> "none"]
C22_Idempotent ==
    RulesPassed => \A ord \in Orders : Settled(last.flat, last.dir, ord)
\* the rules renamed the folder and its files, and a second application
\* changes nothing
C22_Rewritten ==
    /\ RulesPassed
    /\ last.arg = PathA(BBB8)
    /\ last.dir = PathA(M008)
    /\ \A n \in ChildNames(last.flat, last.dir) : ~Contains(n, BBB8)
    /\ \A ord \in Orders : Settled(last.flat, last.dir, ord)
\* The same for the folder names in which the removal of "(0725)" puts
\* together no new "(0725)", "BBB8" or "M008".
FormsNoPattern(n) ==
    /\ ~Contains(Rewritten(n), Suffix0725)
    /\ ~Contains(Rewritten(n), BBB8)
    /\ Contains(Rewritten(n), M008) => Contains(Replace(n, BBB8, M008), M008)
C22_IdempotentPlain ==
    (RulesPassed /\ FormsNoPattern(Name(last.arg))) =>
        \A ord \in Orders : Settled(last.flat, last.dir, ord)

\* C23: when a rename of a legacy rule fails, make_neo_compatible leaves the
\* tree as it was before the first rule: the directory and its files under
\* their old names, nothing nested.
RuleFailed == last.op = "make_neo_compatible" /\ last.failed_at = "legacy"
C23_LeftAsIs == RuleFailed => fs = pre
\* the rename of the folder failed on a sibling that has the new name, and
\* no name has changed
C23_TargetExists ==
    /\ RuleFailed
    /\ HasEntries(pre, Parent(last.arg) \o <<Rewritten(Name(last.arg))>>)
    /\ fs = pre
\* the folder was renamed before the rename of one of its files failed
C23_HalfRenamed ==
    /\ RuleFailed
    /\ last.dir # last.arg
    /\ ~Exists(fs, last.arg)
    /\ \E n \in ChildNames(fs, last.dir) : Contains(n, BBB8)

\* C24: a scan returns every match it can get to without passing through a
\* directory that cannot be listed: the match itself readable, no
\* unreadable, shadow or matching directory between the root and it, and at
\* most max_depth levels down.  An unreadable directory costs its own subtree
\* and nothing else.
Stops(f, d, fn) ==
    IF fn = "find_tdt_folders" THEN \E n \in ChildNames(f, d) : MatchesTsq(n)
    ELSE is_neo_compatible_u(f, d, "fwd")
Added(f, d, fn) ==
    IF fn = "find_tdt_folders" /\ is_innermost_of_neo_structure(f, d)
    THEN Resolve(f, Parent(Parent(d))) ELSE Resolve(f, d)
Reached(f, root, max_depth, fn) ==
    {d \in DirPaths(f) :
        /\ IsUnder(d, root)
        /\ Len(d) - Len(root) <= max_depth
        /\ \A i \in (Len(root) + 1)..Len(d) : ~IsShadow(d[i])
        /\ \A a \in Below(root, d) : ~Unreadable(f, a) /\ ~Stops(f, a, fn)}
C24_Survives ==
    Scanned1 =>
        \A d \in Reached(fs, scan.root, scan.max_depth, scan.fn) :
            (~Unreadable(fs, d) /\ Stops(fs, d, scan.fn)) => Added(fs, d, scan.fn) \in Returned
\* a scan that met an unreadable directory and returned the matching
\* directories beside it
C24_BesideLocked ==
    /\ Scanned1
    /\ \E u \in Reached(fs, scan.root, scan.max_depth, scan.fn) :
          /\ Unreadable(fs, u)
          /\ <<u, Len(u) - Len(scan.root)>> \in scan.res.visited
          /\ \E d \in Returned : d # u /\ Parent(d) = Parent(u)
          /\ \A e \in DirPaths(fs) : (e # u /\ IsUnder(e, u)) => e \notin Returned

\* C25: no scan returns a directory whose only marker files are shadow
\* entries, or one with a shadow name, and no scan lists a directory with a
\* shadow name.
ShadowOnly(f, d) ==
    /\ \E n \in ChildNames(f, d) : MatchesTsq(n)
    /\ ~IsFlat(f, d)
    /\ ~IsCompatible(f, d)
C25_ShadowExcluded ==
    Scanned1 =>
        /\ \A d \in Returned : ~ShadowOnly(fs, d) /\ ~IsShadow(Name(d))
        /\ \A v \in scan.res.listed : ~IsShadow(Name(v[1]))
\* a scan that listed the parent of a shadow directory and stayed out of it
C25_ShadowSkipped ==
    /\ Scanned1
    /\ \E p \in DirPaths(fs) :
          /\ IsShadow(Name(p))
          /\ \E v \in scan.res.listed : v[1] = Parent(p)
          /\ \A v \in scan.res.visited : v[1] # p
    /\ \A d \in Returned : ~ShadowOnly(fs, d)

\* C26: when a scan has discovered two directories, processing them in the
\* one order and in the other gives the same final tree and the same outcome
\* for each of the two.  (for tdt_folder in tdt_folders: an exception ends
\* the loop, the directories after it are not processed.)
Second(r1, b, ord) ==
    IF r1.outcome = "raised" THEN [fs |-> r1.fs, first |-> r1.outcome, second |-> "not_run"]
    ELSE [fs |-> make_neo_compatible(r1.fs, b, Parent(b), ord, "none").fs,
          first |-> r1.outcome,
          second |-> make_neo_compatible(r1.fs, b, Parent(b), ord, "none").outcome]
InOrder(f, a, b, ord) == Second(make_neo_compatible(f, a, Parent(a), ord, "none"), b, ord)
SameEitherWay(x, y) == x.fs = y.fs /\ x.first = y.second /\ x.second = y.first
TwoQueued == run = "organize" /\ Len(queue) = 2
C26_OrderInsensitive ==
    TwoQueued =>
        \A ord \in Orders :
            SameEitherWay(InOrder(fs, queue[1], queue[2], ord), InOrder(fs, queue[2], queue[1], ord))
\* two discovered directories, one of them nested by the run, that come out
\* the same in both orders
C26_Independent ==
    /\ TwoQueued
    /\ \A ord \in Orders :
          /\ SameEitherWay(InOrder(fs, queue[1], queue[2], ord),
                           InOrder(fs, queue[2], queue[1], ord))
          /\ "done" \in {InOrder(fs, queue[1], queue[2], ord).first,
                          InOrder(fs, queue[1], queue[2], ord).second}

\* C27: all through a run of unorganize_data the found total is the number
\* of directories the scans of the existing roots have returned, each of them
\* is dispatched once (called already, or still queued), the unorganized
\* total is the number of calls that returned success, and it is never
\* greater than the found total.
Unorganizing == runlog.mode = "unorganize"
C27_Summary ==
    Unorganizing =>
        /\ total_found = Cardinality(runlog.discovered)
        /\ runlog.calls + Len(queue) = total_found
        /\ runlog.attempted \cup Elems(queue) = runlog.discovered
        /\ Cardinality(runlog.attempted) = runlog.calls
        /\ total_unorganized = Cardinality(runlog.succeeded)
        /\ total_unorganized <= total_found
\* a finished run over two existing roots and a missing one, that found two
\* directories and flattened one of them
C27_OneOfTwo ==
    /\ RunOver
    /\ Unorganizing
    /\ runlog.roots = 1..Len(setup_folders)
    /\ ~Exists(fs, SetupPath(3))
    /\ total_found = 2
    /\ total_unorganized = 1

\* C28: a call of make_neo_compatible or of unorganize_folder leaves every
\* file of the tree in the tree exactly once, with its content: no content
\* is lost, none appears twice.
FilePaths(f) == {p \in DOMAIN f : f[p].kind = "file"}
Copies(f, c) == Cardinality({p \in FilePaths(f) : f[p].id = c})
Contents(f) == {f[p].id : p \in FilePaths(f)}
Conserved(f, g) == \A c \in Contents(f) \cup Contents(g) : Copies(f, c) = Copies(g, c)
C28_Conserved == last.op # "none" => Conserved(pre, fs)
\* a call that renamed the folder and its files and lost none of them
C28_AllKept ==
    /\ last.op = "make_neo_compatible"
    /\ last.outcome = "done"
    /\ last.dir # last.arg
    /\ \A p \in FilePaths(pre) : p \notin FilePaths(fs)
    /\ Conserved(pre, fs)

\* C29: every directory a scan returns is the scan root or lies below it,
\* and a directory find_tdt_folders returns in place of a marker-holding
\* directory two levels down (it holds no marker file itself) is Compatible.
UnderRoot == \A i \in 1..Len(scan.res.found) : IsUnder(scan.res.found[i], scan.root)
Substituted ==
    {d \in Elems(scan.res.found) : \A n \in ChildNames(fs, d) : ~MatchesTsq(n)}
C29_InsideRoot ==
    Scanned1 =>
        /\ UnderRoot
        /\ scan.fn = "find_tdt_folders" => \A d \in Substituted : IsCompatible(fs, d)
\* a scan that returned a Compatible directory below its root in place of
\* the inner directory
C29_Grandparent ==
    /\ scan.fn = "find_tdt_folders"
    /\ UnderRoot
    /\ \E d \in Substituted :
          /\ d # scan.root
          /\ IsCompatible(fs, d)
          /\ IsFlat(fs, InnerOf(d, SessionOf(fs, d)))
    /\ \A d \in Substituted : IsCompatible(fs, d)

----------------------------------------------------------------------------
(* huang_2025_tdt_convert_all_sessions.py: dataset_to_nwb and its workers *)

MaxSessions == 3
MaxWorkers == 2

\* the variables of the directory scripts, which dataset_to_nwb leaves alone
treeVars == <<fs, run, setup_idx, queue, total_found, total_unorganized, nruns,
              pre, last, anchor, runlog, scan, cls, ext, fresh>>

\* output_dir_path: "exists", "absent" (session_to_nwb creates it with
\* mkdir(parents=True, exist_ok=True)) or "unwritable" (absent, and mkdir
\* raises)
OutStates == {"exists", "absent", "unwritable"}

\* The call of dataset_to_nwb on n sessions: nothing submitted, every
\* worker idle.  state: "unsubmitted", "pending", "running" (in
\* session_to_nwb), "handling" (in the except branch), "finished";
\* outcome: what the future holds; file: the session whose traceback is in
\* the exception file of the session, 0 for no file; worker: the session a
\* worker process runs, 0 when idle; yielded: the futures as_completed gave.
StartPool(n, max_workers, out) ==
    [main |-> "submitting", n |-> n, max_workers |-> max_workers, out |-> out, submitted |-> 0,
     state |-> [t \in 1..n |-> "unsubmitted"],
     raised |-> [t \in 1..n |-> FALSE],
     outcome |-> [t \in 1..n |-> "none"],
     file |-> [t \in 1..n |-> 0],
     nwb |-> [t \in 1..n |-> FALSE],
     worker |-> [w \in 1..max_workers |-> 0],
     yielded |-> {}]

InitPool ==
    /\ fs = TreeOf(Skeleton)
    /\ run = "none"
    /\ setup_idx = 1
    /\ queue = <<>>
    /\ total_found = 0
    /\ total_unorganized = 0
    /\ nruns = 0
    /\ pre = fs
    /\ last = NoCall
    /\ anchor = NoAnchor
    /\ runlog = NoRun
    /\ scan = NoScan
    /\ cls = NoCls
    /\ ext = NoExt
    /\ fresh = TRUE
    /\ \E n \in 1..MaxSessions, max_workers \in 1..MaxWorkers, out \in OutStates :
          pool = StartPool(n, max_workers, out)

\* futures.append(executor.submit(safe_session_to_nwb, ...)), after
\* get_nwbfile_name gave the name of the exception file
Submit ==
    /\ pool.main = "submitting"
    /\ pool.submitted < pool.n
    /\ pool' = [pool EXCEPT !.submitted = @ + 1, !.state[pool.submitted + 1] = "pending"]
    /\ UNCHANGED treeVars
\* get_nwbfile_name raises in the main process: the with block is left, and
\* its exit waits for the futures submitted so far
SubmitRaises ==
    /\ pool.main = "submitting"
    /\ pool.submitted < pool.n
    /\ pool' = [pool EXCEPT !.main = "raising"]
    /\ UNCHANGED treeVars
\* the loop over session_to_nwb_kwargs_per_session is over
AllSubmitted ==
    /\ pool.main = "submitting"
    /\ pool.submitted = pool.n
    /\ pool' = [pool EXCEPT !.main = "waiting"]
    /\ UNCHANGED treeVars

Pending(p) == {t \in 1..p.n : p.state[t] = "pending"}
Oldest(ts) == CHOOSE t \in ts : \A u \in ts : t <= u
\* an idle worker process takes the oldest pending call
Take(w) ==
    /\ pool.main # "none"
    /\ w \in DOMAIN pool.worker
    /\ pool.worker[w] = 0
    /\ Pending(pool) # {}
    /\ pool' = [pool EXCEPT !.worker[w] = Oldest(Pending(pool)),
                            !.state[Oldest(Pending(pool))] = "running"]
    /\ UNCHANGED treeVars
Running(w, st) ==
    /\ pool.main # "none"
    /\ w \in DOMAIN pool.worker
    /\ pool.worker[w] # 0
    /\ pool.state[pool.worker[w]] = st
\* session_to_nwb returns: the output directory and the NWB file exist
Returns(w) ==
    /\ Running(w, "running")
    /\ pool.out # "unwritable"
    /\ pool' = [pool EXCEPT !.out = "exists", !.nwb[pool.worker[w]] = TRUE,
                            !.state[pool.worker[w]] = "finished",
                            !.outcome[pool.worker[w]] = "result", !.worker[w] = 0]
    /\ UNCHANGED treeVars
\* session_to_nwb raises an Exception: at its mkdir when the directory
\* cannot be created, after it otherwise
Raises(w) ==
    /\ Running(w, "running")
    /\ pool' = [pool EXCEPT !.out = IF @ = "unwritable" THEN @ ELSE "exists",
                            !.raised[pool.worker[w]] = TRUE,
                            !.state[pool.worker[w]] = "handling"]
    /\ UNCHANGED treeVars
\* exception_file_path of the session: output_dir_path / ERROR_<stem>.txt
ExceptionFile(t) == t
\* except Exception: open(exception_file_path, "w") and write; the open
\* raises when the output directory does not exist, and that exception
\* leaves safe_session_to_nwb and is stored in the future
Handle(w) ==
    /\ Running(w, "handling")
    /\ pool' = IF pool.out = "exists"
               THEN [pool EXCEPT !.file[ExceptionFile(pool.worker[w])] = pool.worker[w],
                                 !.state[pool.worker[w]] = "finished",
                                 !.outcome[pool.worker[w]] = "result", !.worker[w] = 0]
               ELSE [pool EXCEPT !.state[pool.worker[w]] = "finished",
                                 !.outcome[pool.worker[w]] = "exception", !.worker[w] = 0]
    /\ UNCHANGED treeVars
\* for _ in tqdm(as_completed(futures)): pass -- the result of the future is
\* never asked for
Yield ==
    /\ pool.main = "waiting"
    /\ \E t \in 1..pool.n :
          /\ pool.state[t] = "finished"
          /\ t \notin pool.yielded
          /\ pool' = [pool EXCEPT !.yielded = @ \cup {t}]
    /\ UNCHANGED treeVars
\* the with block is left: every future is done
Return ==
    /\ pool.main = "waiting"
    /\ pool.yielded = 1..pool.n
    /\ pool' = [pool EXCEPT !.main = "returned"]
    /\ UNCHANGED treeVars
\* the exception of get_nwbfile_name leaves dataset_to_nwb once the
\* submitted calls are over
Reraise ==
    /\ pool.main = "raising"
    /\ \A t \in 1..pool.n : pool.state[t] \in {"unsubmitted", "finished"}
    /\ pool' = [pool EXCEPT !.main = "raised"]
    /\ UNCHANGED treeVars

MainStep == Submit \/ SubmitRaises \/ AllSubmitted \/ Yield \/ Return \/ Reraise
WorkerStep(w) == Take(w) \/ Returns(w) \/ Raises(w) \/ Handle(w)
NextPool ==
    \/ Submit
    \/ SubmitRaises
    \/ AllSubmitted
    \/ Yield
    \/ Return
    \/ Reraise
    \/ \E w \in 1..MaxWorkers : Take(w)
    \/ \E w \in 1..MaxWorkers : Returns(w)
    \/ \E w \in 1..MaxWorkers : Raises(w)
    \/ \E w \in 1..MaxWorkers : Handle(w)
SpecPool == InitPool /\ [][NextPool]_vars
\* the main process and every worker process that can take a step takes one
FairPool ==
    /\ SpecPool
    /\ WF_vars(MainStep)
    /\ \A w \in 1..MaxWorkers : WF_vars(WorkerStep(w))

\* C30: a session whose session_to_nwb raised ends with its traceback in
\* its own exception file and with no exception in its future; no exception
\* file holds anything but the traceback of its own session, and a session
\* that did not raise has no exception file.
Sessions == IF pool.main = "none" THEN {} ELSE 1..pool.n
Over(t) == pool.state[t] = "finished"
C30_Contained ==
    \A t \in Sessions :
        /\ (pool.raised[t] /\ Over(t)) => (pool.file[t] = t /\ pool.outcome[t] = "result")
        /\ pool.file[t] \in {0, t}
        /\ ~pool.raised[t] => pool.file[t] = 0
\* The same when the output directory exists or can be created.
C30_ContainedWritable ==
    (pool.main # "none" /\ pool.out # "unwritable") => C30_Contained
\* every submitted session is over in the end, whatever the interleaving
C30_AllComplete ==
    <>[](\A t \in Sessions : pool.state[t] \in {"unsubmitted", "finished"})
\* dataset_to_nwb returned: one session raised and has its exception file,
\* another one ran beside it and wrote its NWB file
C30_OneFailed ==
    /\ pool.main = "returned"
    /\ \E t, u \in Sessions :
          /\ pool.raised[t] /\ Over(t) /\ pool.file[t] = t /\ pool.outcome[t] = "result"
          /\ ~pool.raised[u] /\ Over(u) /\ pool.nwb[u] /\ pool.file[u] = 0
====
